---- MODULE Spec2Model ----
(***************************************************************************)
(* Model of the inference execution layer of the benchmark backend:        *)
(*   backend/app/connectors/llama_stack.py   (stack connector)             *)
(*   backend/app/connectors/openai_compat.py (OpenAI-compatible connector) *)
(*   backend/app/services/stream_handler.py  (SSE decoder, extractors)     *)
(*   backend/app/services/benchmark.py       (benchmark orchestrator)      *)
(*                                                                         *)
(* Three specifications share the variables:                               *)
(*   SpecInfer  - one run_inference call of either connector               *)
(*   SpecStream - one stream_inference call of either connector            *)
(*   SpecBench  - one run_benchmark call                                   *)
(* Time is counted in ticks of one third of a tenth of a millisecond, so   *)
(* that round(x, 1) is a real rounding and never meets a tie.              *)
(***************************************************************************)
EXTENDS Integers, Sequences, FiniteSets, TLC

VARIABLES
    \* ---- run_inference ----
    conn,        \* which connector runs: "llama_stack" | "openai"
    ipc,         \* position of run_inference
    now,         \* time.monotonic(), in ticks
    start,       \* local `start` of the running call
    entered,     \* the clock when run_inference was entered (history)
    reqs,        \* outbound inference requests issued so far, in order
    inflight,    \* outbound requests currently awaiting their response
    prim,        \* what the Responses request produced (history)
    chat,        \* what the Chat-Completions request produced (history)
    result,      \* the returned InferenceResult
    crossed,     \* an exception left run_inference
    \* ---- stream_inference ----
    spc,         \* position of the stream_inference generator
    stage,       \* the stream being opened or read: "primary" | "fallback"
    events,      \* the StreamEvents yielded to the consumer, in order
    full_text,   \* local `full_text`
    usage_found, \* local `usage_found`
    sopened,     \* streaming requests issued so far, in order (history)
    sopen,       \* streams currently open
    sread,       \* lines read from the current stream
    prim_end,    \* how the primary stream ended: "none" | "drained" | "failed"
    fb_end,      \* how the fallback stream ended: "none" | "drained" | "failed"
    fb_from,     \* number of events yielded before the fallback stream opened
    usage_src,   \* the stream that delivered usage_found (history)
    usage_seen,  \* the last non-empty usage object a stream delivered (history)
    \* ---- run_benchmark ----
    prompts,       \* req.prompts[i].input
    num_runs,      \* req.num_runs
    score_quality, \* req.score_quality
    has_judge,     \* a judge server and model are available to score_response
    bpc,           \* position of run_benchmark
    tpc,           \* position of the task of each prompt
    runs,          \* local `runs` of each task
    tcalls,        \* inference calls issued by each task so far (history)
    raw_results,   \* what gather holds for each task
    out_of_order,  \* in the gather last awaited, a task completed before one of a lower index (history)
    results,       \* local `results`
    qpc,           \* position of each scoring task
    qcalls,        \* judge calls issued for each result (history)
    scores,        \* what the scoring gather holds for each result
    response,      \* the returned BenchmarkResponse
    \* ---- score_response (one call) ----
    jargs,         \* the arguments server_url and model
    jconfig,       \* config.optimizer: server_url and model
    jpc,           \* position of score_response
    jposts,        \* POSTs issued to the judge (history)
    jreply,        \* how the judge call ended (history)
    jret,          \* the returned (score, reasoning)
    \* ---- parse_sse_lines (one generator) ----
    response_lines, \* the lines the iterator delivers
    consumed,       \* number of lines taken from the iterator
    yielded,        \* the events yielded so far
    ppc,            \* position of the generator
    \* ---- latency statistics of run_benchmark ----
    st_results,    \* latency_ms and error of each result
    sorted_values, \* local `latencies`, the argument of _percentile
    pctl_p,        \* the p _percentile was called with
    pctl,          \* 100 times what _percentile returned
    stpc,          \* position in the statistics
    \* ---- token deviation of run_benchmark ----
    sd_results,     \* usage.total_tokens and error of each result
    token_counts,   \* local `token_counts`
    std_dev,        \* local `std_dev`, held as its square [num, den]
    std_dev_tokens, \* the returned std_dev_tokens, in tenths
    sdpc,           \* position in the deviation
    \* ---- discover_models (one call) ----
    dpc,            \* position of discover_models
    dreqs,          \* discovery endpoints requested so far, in order (history)
    dprim,          \* what the primary endpoint answered (history)
    dsec,           \* what the secondary endpoint answered (history)
    models,         \* local `models`
    dret,           \* the returned list
    \* ---- the routers (one request) ----
    endpoint,       \* the route of the request
    rurl,           \* the server URL of the request
    rprovider,      \* req.provider
    rpc,            \* position of the handler
    rcalls,         \* connector operations invoked so far, in order (history)
    rstatus,        \* status of the HTTP answer, 0 while there is none
    \* ---- _extract_json (one call) ----
    xinput,         \* the argument `text` and how it was made (history)
    xtext,          \* local `text`
    xstart,         \* local `start`, counted from 1; 0 for -1
    xi,             \* loop variable `i`, counted from 1
    xdepth,         \* local `depth`
    xend,           \* local `end`, counted from 1
    xcand,          \* local `candidate`
    xret,           \* the returned value, None for None
    xpc             \* position of _extract_json

inferVars == <<conn, ipc, now, start, entered, reqs, inflight, prim, chat, result, crossed>>

streamVars == <<spc, stage, events, full_text, usage_found, sopened, sopen, sread,
                prim_end, fb_end, fb_from, usage_src, usage_seen>>

benchVars == <<prompts, num_runs, score_quality, has_judge, bpc, tpc, runs, tcalls,
               raw_results, out_of_order, results, qpc, qcalls, scores, response>>

scoreVars == <<jargs, jconfig, jpc, jposts, jreply, jret>>
sseVars == <<response_lines, consumed, yielded, ppc>>
statVars == <<st_results, sorted_values, pctl_p, pctl, stpc>>
sdVars == <<sd_results, token_counts, std_dev, std_dev_tokens, sdpc>>
discVars == <<dpc, dreqs, dprim, dsec, models, dret>>
routeVars == <<endpoint, rurl, rprovider, rpc, rcalls, rstatus>>
extractVars == <<xinput, xtext, xstart, xi, xdepth, xend, xcand, xret, xpc>>
moreVars == <<sdVars, discVars, routeVars, extractVars>>
extraVars == <<scoreVars, sseVars, statVars, moreVars>>
vars == <<inferVars, streamVars, benchVars, extraVars>>

----------------------------------------------------------------------------
\* Bounds of the model

MaxTok == 1          \* token counts reported by a server: 0..MaxTok
MaxDur == 2          \* an outbound call takes 1..MaxDur ticks
MaxClock0 == 1       \* the clock reads 0..MaxClock0 when the call starts

----------------------------------------------------------------------------
\* Values

None == <<>>
Some(x) == <<x>>

\* a text is a sequence of characters
Texts == {<<>>, <<"a">>}
Toks == 0..MaxTok
Durations == 1..MaxDur

\* Exceptions an outbound call can end with: connect failure, timeout,
\* non-2xx status (raise_for_status), malformed body (resp.json()).
ExcKinds == {"ConnectError", "ReadTimeout", "HTTPStatusError", "JSONDecodeError"}

Range(f) == {f[k] : k \in DOMAIN f}

Get(d, k, default) == IF k \in DOMAIN d THEN d[k] ELSE default

RespUsageKeys == {{}, {"input_tokens", "output_tokens"},
                  {"input_tokens", "output_tokens", "total_tokens"}}
ChatUsageKeys == {{}, {"prompt_tokens", "completion_tokens"},
                  {"prompt_tokens", "completion_tokens", "total_tokens"}}

Dicts(keysets) == UNION {[S -> Toks] : S \in keysets}

\* What an outbound POST can produce: an exception, or a JSON body with a
\* text and an optional usage object.
HttpOutcomes(keysets) ==
    {[exc |-> Some(e), text |-> <<>>, usage |-> None] : e \in ExcKinds}
    \cup {[exc |-> None, text |-> t, usage |-> u] :
             t \in Texts, u \in {None} \cup {Some(d) : d \in Dicts(keysets)}}

NoOutcome == [exc |-> None, text |-> <<>>, usage |-> None, absent |-> TRUE]

\* schemas.TokenUsage
TokenUsage(i, o, t) == [input_tokens |-> i, output_tokens |-> o, total_tokens |-> t]
DefaultUsage == TokenUsage(0, 0, 0)

\* round(x, 1) of a duration of t ticks, in tenths of a millisecond
Round1(t) == (2 * t + 3) \div 6

Elapsed(t0, t1) == Round1(t1 - t0)

NoResult == [absent |-> TRUE]

\* the InferenceResult of the success path
SuccessResult(text, usage, api_used, t0, t1) ==
    [response_text |-> text,
     usage |-> IF usage = None THEN DefaultUsage ELSE usage[1],
     latency_ms |-> Elapsed(t0, t1),
     api_used |-> api_used,
     error |-> None]

\* (mutant) the error result names the Chat-Completions dialect
ErrorResult_ChatDialect(e, t0, t1) ==
    [response_text |-> <<>>,
     usage |-> DefaultUsage,
     latency_ms |-> Elapsed(t0, t1),
     api_used |-> "chat_completions",
     error |-> Some(e)]

\* (mutant) the error result carries the text and usage of the primary call
ErrorResult_KeepsPrimary(e, t0, t1) ==
    [response_text |-> prim.text,
     usage |-> IF prim.usage = None \/ DOMAIN prim.usage[1] = {}
               THEN DefaultUsage
               ELSE TokenUsage(Get(prim.usage[1], "input_tokens", 0),
                               Get(prim.usage[1], "output_tokens", 0),
                               Get(prim.usage[1], "total_tokens", 0)),
     latency_ms |-> Elapsed(t0, t1),
     api_used |-> "",
     error |-> Some(e)]

\* the InferenceResult of the except branch
ErrorResult(e, t0, t1) ==
    [response_text |-> <<>>,
     usage |-> DefaultUsage,
     latency_ms |-> Elapsed(t0, t1),
     api_used |-> "",
     error |-> Some(e)]

\* (mutant) `except httpx.HTTPError`: a malformed body is not caught
Catches_HttpxOnly(e) == e # "JSONDecodeError"

\* `except Exception`: every exception of an outbound call is caught
Catches(e) == TRUE

\* _call_responses_api on a returned body
call_responses_api(body) ==
    [text |-> body.text,
     usage |-> IF body.usage = None \/ DOMAIN body.usage[1] = {}
               THEN None
               ELSE Some(TokenUsage(Get(body.usage[1], "input_tokens", 0),
                                    Get(body.usage[1], "output_tokens", 0),
                                    Get(body.usage[1], "total_tokens", 0))),
     api_used |-> "responses"]

\* _call_chat_completions_api on a returned body
call_chat_completions_api(body) ==
    [text |-> body.text,
     usage |-> IF body.usage = None \/ DOMAIN body.usage[1] = {}
               THEN None
               ELSE Some(TokenUsage(Get(body.usage[1], "prompt_tokens", 0),
                                    Get(body.usage[1], "completion_tokens", 0),
                                    Get(body.usage[1], "total_tokens", 0))),
     api_used |-> "chat_completions"]

\* the parsing inlined in OpenAICompatConnector.run_inference
openai_parse(body) ==
    [text |-> body.text,
     usage |-> IF body.usage = None
               THEN Some(DefaultUsage)
               ELSE Some(TokenUsage(Get(body.usage[1], "prompt_tokens", 0),
                                    Get(body.usage[1], "completion_tokens", 0),
                                    Get(body.usage[1], "total_tokens", 0))),
     api_used |-> "chat_completions"]

\* (mutant) falls back only when the usage object is missing
NeedsFallback_MissingOnly(usage) == usage = None

\* (mutant) falls back after every primary response
NeedsFallback_Always(usage) == TRUE

\* the fallback test of LlamaStackConnector.run_inference
NeedsFallback(usage) == usage = None \/ usage[1].total_tokens = 0

----------------------------------------------------------------------------
\* run_inference

\* no stream_inference call is running
IdleStream ==
    /\ spc = "idle" /\ stage = "primary" /\ events = <<>> /\ full_text = <<>>
    /\ usage_found = None /\ sopened = <<>> /\ sopen = {} /\ sread = 0
    /\ prim_end = "none" /\ fb_end = "none" /\ fb_from = 0 /\ usage_src = "none" /\ usage_seen = None

\* no run_benchmark call is running
IdleBench ==
    /\ prompts = <<>> /\ num_runs = 1 /\ score_quality = FALSE /\ has_judge = FALSE
    /\ bpc = "idle" /\ tpc = <<>> /\ runs = <<>> /\ tcalls = <<>>
    /\ raw_results = <<>> /\ out_of_order = FALSE /\ results = <<>>
    /\ qpc = <<>> /\ qcalls = <<>> /\ scores = <<>> /\ response = NoResult

\* no score_response call is running
IdleScore ==
    /\ jargs = <<>> /\ jconfig = <<>> /\ jpc = "idle" /\ jposts = 0
    /\ jreply = <<>> /\ jret = NoResult

\* no parse_sse_lines generator is running
IdleSSE == response_lines = <<>> /\ consumed = 0 /\ yielded = <<>> /\ ppc = "idle"

\* no statistics are being computed
IdleStats ==
    /\ st_results = <<>> /\ sorted_values = <<>> /\ pctl_p = 0 /\ pctl = 0 /\ stpc = "idle"

\* no token deviation is being computed
IdleStdDev ==
    /\ sd_results = <<>> /\ token_counts = <<>> /\ std_dev = [num |-> 0, den |-> 1]
    /\ std_dev_tokens = 0 /\ sdpc = "idle"

\* no discover_models call is running
IdleDiscover ==
    /\ dpc = "idle" /\ dreqs = <<>> /\ dprim = None /\ dsec = None
    /\ models = <<>> /\ dret = None

\* no request is being handled
IdleRoute ==
    /\ endpoint = "none" /\ rurl = None /\ rprovider = "llama_stack" /\ rpc = "idle"
    /\ rcalls = <<>> /\ rstatus = 0

\* no _extract_json call is running
IdleExtract ==
    /\ xinput = None /\ xtext = <<>> /\ xstart = 0 /\ xi = 0 /\ xdepth = 0 /\ xend = 0
    /\ xcand = <<>> /\ xret = None /\ xpc = "idle"

IdleMore == IdleStdDev /\ IdleDiscover /\ IdleRoute /\ IdleExtract

InitInfer ==
    /\ conn \in {"llama_stack", "openai"}
    /\ ipc = "init"
    /\ now \in 0..MaxClock0
    /\ start = 0
    /\ entered = 0
    /\ reqs = <<>>
    /\ inflight = {}
    /\ prim = NoOutcome
    /\ chat = NoOutcome
    /\ result = NoResult
    /\ crossed = FALSE
    /\ IdleStream
    /\ IdleBench
    /\ IdleScore /\ IdleSSE /\ IdleStats /\ IdleMore

\* an exception e is either caught and converted, or leaves the call
Fail(e) ==
    IF Catches(e)
    THEN /\ result' = ErrorResult(e, start, now')
         /\ ipc' = "done"
         /\ crossed' = FALSE
    ELSE /\ result' = result
         /\ ipc' = "raised"
         /\ crossed' = TRUE

\* LlamaStackConnector.run_inference up to its first await
LS_Start ==
    /\ conn = "llama_stack" /\ ipc = "init"
    /\ start' = now
    /\ entered' = now
    /\ reqs' = Append(reqs, "responses")
    /\ inflight' = {"responses"}
    /\ ipc' = "await_responses"
    /\ UNCHANGED <<conn, now, prim, chat, result, crossed, streamVars, benchVars, extraVars>>

\* the Responses request ends; the call fails, returns or falls back
LS_ResponsesReturns ==
    /\ conn = "llama_stack" /\ ipc = "await_responses"
    /\ \E o \in HttpOutcomes(RespUsageKeys), d \in Durations :
        /\ now' = now + d
        /\ prim' = o
        /\ IF o.exc # None
           THEN /\ Fail(o.exc[1])
                /\ inflight' = {}
                /\ UNCHANGED reqs
           ELSE LET r == call_responses_api(o) IN
                IF NeedsFallback(r.usage)
                THEN /\ reqs' = Append(reqs, "chat_completions")
                     /\ inflight' = {"chat_completions"}
                     /\ ipc' = "await_chat"
                     /\ UNCHANGED <<result, crossed>>
                ELSE /\ result' = SuccessResult(r.text, r.usage, r.api_used, start, now')
                     /\ inflight' = {}
                     /\ ipc' = "done"
                     /\ UNCHANGED <<reqs, crossed>>
    /\ UNCHANGED <<conn, start, entered, chat, streamVars, benchVars, extraVars>>

\* the Chat-Completions fallback request ends
LS_ChatReturns ==
    /\ conn = "llama_stack" /\ ipc = "await_chat"
    /\ \E o \in HttpOutcomes(ChatUsageKeys), d \in Durations :
        /\ now' = now + d
        /\ chat' = o
        /\ inflight' = {}
        /\ IF o.exc # None
           THEN Fail(o.exc[1])
           ELSE LET r == call_chat_completions_api(o) IN
                /\ result' = SuccessResult(r.text, r.usage, r.api_used, start, now')
                /\ ipc' = "done"
                /\ UNCHANGED crossed
    /\ UNCHANGED <<conn, start, entered, reqs, prim, streamVars, benchVars, extraVars>>

\* OpenAICompatConnector.run_inference up to its await
OA_Start ==
    /\ conn = "openai" /\ ipc = "init"
    /\ start' = now
    /\ entered' = now
    /\ reqs' = Append(reqs, "chat_completions")
    /\ inflight' = {"chat_completions"}
    /\ ipc' = "await_chat"
    /\ UNCHANGED <<conn, now, prim, chat, result, crossed, streamVars, benchVars, extraVars>>

\* the only request of the OpenAI-compatible connector ends
OA_ChatReturns ==
    /\ conn = "openai" /\ ipc = "await_chat"
    /\ \E o \in HttpOutcomes(ChatUsageKeys), d \in Durations :
        /\ now' = now + d
        /\ chat' = o
        /\ inflight' = {}
        /\ IF o.exc # None
           THEN Fail(o.exc[1])
           ELSE LET r == openai_parse(o) IN
                /\ result' = SuccessResult(r.text, r.usage, r.api_used, start, now')
                /\ ipc' = "done"
                /\ UNCHANGED crossed
    /\ UNCHANGED <<conn, start, entered, reqs, prim, streamVars, benchVars, extraVars>>

NextInfer ==
    \/ LS_Start
    \/ LS_ResponsesReturns
    \/ LS_ChatReturns
    \/ OA_Start
    \/ OA_ChatReturns

SpecInfer == InitInfer /\ [][NextInfer]_vars

----------------------------------------------------------------------------
\* stream_inference

MaxLines == 3        \* a server stream holds at most MaxLines lines before it ends

Deltas == {<<>>, <<"a">>, <<"b">>}
EmptyDict == [k \in {} |-> 0]

\* usage objects a streaming server can send
RespStreamUsages ==
    {EmptyDict,
     [input_tokens |-> 0, output_tokens |-> 0, total_tokens |-> 0],
     [input_tokens |-> 1, output_tokens |-> 1],
     [input_tokens |-> 1, output_tokens |-> 1, total_tokens |-> 2]}
ChatStreamUsages ==
    {EmptyDict,
     [prompt_tokens |-> 0, completion_tokens |-> 0, total_tokens |-> 0],
     [prompt_tokens |-> 1, completion_tokens |-> 1],
     [prompt_tokens |-> 1, completion_tokens |-> 1, total_tokens |-> 2]}

\* JSON payloads of the Responses dialect
RespEvents ==
    {[type |-> "response.output_text.delta", delta |-> d] : d \in Deltas}
    \cup {[type |-> "response.completed", usage |-> u] :
            u \in {None} \cup {Some(d) : d \in RespStreamUsages}}
    \cup {[type |-> "response.created"]}

\* JSON payloads of the Chat-Completions dialect
ChatChunks ==
    {[choices |-> c, usage |-> u] :
        c \in {None} \cup {Some([content |-> None])}
              \cup {Some([content |-> Some(d)]) : d \in Deltas},
        u \in {None} \cup {Some(d) : d \in ChatStreamUsages}}

\* the lines of a server stream, after strip(), before its end
Lines(payloads) ==
    {[kind |-> "blank"], [kind |-> "comment"], [kind |-> "other"], [kind |-> "bad_json"]}
    \cup {[kind |-> "data", payload |-> ev] : ev \in payloads}

\* parse_sse_lines on one line that is not `data: [DONE]`: the event it
\* yields, or None when the line is skipped
parse_sse_line(line) ==
    IF line.kind = "data" THEN Some(line.payload) ELSE None

extract_text_delta_from_responses_event(event) ==
    IF event.type = "response.output_text.delta" THEN Some(event.delta) ELSE None

extract_usage_from_responses_event(event) ==
    IF event.type = "response.completed" THEN event.usage ELSE None

extract_text_delta_from_chat_chunk(chunk) ==
    IF chunk.choices # None THEN chunk.choices[1].content ELSE None

extract_usage_from_chat_chunk(chunk) ==
    IF chunk.usage # None /\ DOMAIN chunk.usage[1] # {}
    THEN Some([input_tokens |-> Get(chunk.usage[1], "prompt_tokens", 0),
               output_tokens |-> Get(chunk.usage[1], "completion_tokens", 0),
               total_tokens |-> Get(chunk.usage[1], "total_tokens", 0)])
    ELSE None

\* Python truth of an optional string or dict
Truthy(x) == x # None /\ x[1] # <<>> /\ DOMAIN x[1] # {}

\* the dialect a connector speaks on a stage
Dialect(c, st) ==
    IF c = "llama_stack" /\ st = "primary" THEN "responses" ELSE "chat_completions"

Payloads(dialect) == IF dialect = "responses" THEN RespEvents ELSE ChatChunks
extract_text_delta(dialect, ev) ==
    IF dialect = "responses" THEN extract_text_delta_from_responses_event(ev)
    ELSE extract_text_delta_from_chat_chunk(ev)
extract_usage(dialect, ev) ==
    IF dialect = "responses" THEN extract_usage_from_responses_event(ev)
    ELSE extract_usage_from_chat_chunk(ev)

OpenExcKinds == {"ConnectError", "HTTPStatusError"}
ReadExcKinds == {"ReadTimeout", "RemoteProtocolError"}

ErrorEvent(e, t0, t1) == [type |-> "error", error |-> e, latency_ms |-> Elapsed(t0, t1)]

\* api_used of the complete event of a connector
CompleteApiUsed(c, usage) ==
    IF c = "llama_stack"
    THEN (IF usage # None THEN "responses" ELSE "chat_completions")
    ELSE "chat_completions"

CompleteEvent(c, text, usage, t0, t1) ==
    [type |-> "complete",
     response_text |-> text,
     usage |-> IF usage # None THEN usage[1] ELSE EmptyDict,
     latency_ms |-> Elapsed(t0, t1),
     api_used |-> CompleteApiUsed(c, usage)]

\* (mutant) a primary usage summing to zero tokens also opens the fallback stream
WantsFallback_ZeroTotal(c, st, usage) ==
    c = "llama_stack" /\ st = "primary"
    /\ (IF usage = None THEN TRUE ELSE Get(usage[1], "total_tokens", 0) = 0)

\* the stack connector opens the fallback stream after the primary stream
WantsFallback(c, st, usage) == c = "llama_stack" /\ st = "primary" /\ usage = None

\* (mutant) the text accumulated from the primary stream is kept
RestartText_Keeps(text) == text

\* `full_text = ""` once the fallback stream is open
RestartText(text) == <<>>

\* (mutant) the `return` after `yield error` is missing
AfterErrorYield_FallsThrough(st) == "after"

\* where the generator continues when resumed after yielding an error: `return`
AfterErrorYield(st) == "done"

IdleInfer ==
    /\ ipc = "idle" /\ entered = 0 /\ reqs = <<>> /\ inflight = {}
    /\ prim = NoOutcome /\ chat = NoOutcome /\ result = NoResult /\ crossed = FALSE

inferRest == <<conn, ipc, entered, reqs, inflight, prim, chat, result, crossed>>

InitStream ==
    /\ conn \in {"llama_stack", "openai"}
    /\ IdleInfer
    /\ IdleBench
    /\ IdleScore /\ IdleSSE /\ IdleStats /\ IdleMore
    /\ now = 0
    /\ start = 0
    /\ spc = "open" /\ stage = "primary"
    /\ events = <<>> /\ full_text = <<>> /\ usage_found = None
    /\ sopened = <<>> /\ sopen = {} /\ sread = 0
    /\ prim_end = "none" /\ fb_end = "none" /\ fb_from = 0 /\ usage_src = "none" /\ usage_seen = None

MarkEnd(how) ==
    IF stage = "primary"
    THEN prim_end' = how /\ UNCHANGED fb_end
    ELSE fb_end' = how /\ UNCHANGED prim_end

\* client.stream(...) and raise_for_status() of the stage's request succeed
S_Open ==
    /\ spc = "open"
    /\ now' = now + 1
    /\ sopened' = Append(sopened, Dialect(conn, stage))
    /\ sopen' = sopen \cup {Dialect(conn, stage)}
    /\ spc' = "reading"
    /\ sread' = 0
    /\ full_text' = IF stage = "fallback" THEN RestartText(full_text) ELSE full_text
    /\ fb_from' = IF stage = "fallback" THEN Len(events) ELSE fb_from
    /\ UNCHANGED <<inferRest, benchVars, extraVars, start, stage, events, usage_found, prim_end, fb_end, usage_src, usage_seen>>

\* client.stream(...) or raise_for_status() of the stage's request raises
S_OpenFails ==
    /\ spc = "open"
    /\ \E e \in OpenExcKinds :
        /\ now' = now + 1
        /\ sopened' = Append(sopened, Dialect(conn, stage))
        /\ events' = Append(events, ErrorEvent(e, start, now'))
        /\ spc' = "error_yielded"
        /\ MarkEnd("failed")
    /\ UNCHANGED <<inferRest, benchVars, extraVars, start, stage, full_text, usage_found, sopen, sread,
                   fb_from, usage_src, usage_seen>>

\* one line of the open stream is read and decoded
S_Line ==
    /\ spc = "reading" /\ sread < MaxLines
    /\ \E line \in Lines(Payloads(Dialect(conn, stage))) :
        LET ev == parse_sse_line(line)
            td == IF ev = None THEN None ELSE extract_text_delta(Dialect(conn, stage), ev[1])
            us == IF ev = None THEN None ELSE extract_usage(Dialect(conn, stage), ev[1])
        IN  /\ now' = now + 1
            /\ sread' = sread + 1
            /\ IF Truthy(td)
               THEN /\ full_text' = full_text \o td[1]
                    /\ events' = Append(events, [type |-> "text_delta", delta |-> td[1]])
               ELSE UNCHANGED <<full_text, events>>
            /\ IF Truthy(us)
               THEN /\ usage_found' = us
                    /\ usage_src' = Dialect(conn, stage)
               ELSE UNCHANGED <<usage_found, usage_src>>
            /\ usage_seen' = IF Truthy(us) THEN us ELSE usage_seen
    /\ UNCHANGED <<inferRest, benchVars, extraVars, start, spc, stage, sopened, sopen, prim_end, fb_end, fb_from>>

\* the stream ends: `data: [DONE]` is read or the lines are exhausted
S_Ends ==
    /\ spc = "reading"
    /\ now' = now + 1
    /\ sopen' = sopen \ {Dialect(conn, stage)}
    /\ spc' = "after"
    /\ MarkEnd("drained")
    /\ UNCHANGED <<inferRest, benchVars, extraVars, start, stage, events, full_text, usage_found, sopened, sread,
                   fb_from, usage_src, usage_seen>>

\* reading the stream raises
S_Fails ==
    /\ spc = "reading"
    /\ \E e \in ReadExcKinds :
        /\ now' = now + 1
        /\ events' = Append(events, ErrorEvent(e, start, now'))
        /\ sopen' = sopen \ {Dialect(conn, stage)}
        /\ spc' = "error_yielded"
        /\ MarkEnd("failed")
    /\ UNCHANGED <<inferRest, benchVars, extraVars, start, stage, full_text, usage_found, sopened, sread,
                   fb_from, usage_src, usage_seen>>

\* past the stream: start the fallback stage
S_Fallback ==
    /\ spc = "after"
    /\ WantsFallback(conn, stage, usage_found)
    /\ stage' = "fallback"
    /\ spc' = "open"
    /\ UNCHANGED <<inferRest, benchVars, extraVars, now, start, events, full_text, usage_found, sopened, sopen,
                   sread, prim_end, fb_end, fb_from, usage_src, usage_seen>>

\* past the stream(s): yield the complete event
S_Complete ==
    /\ spc = "after"
    /\ ~WantsFallback(conn, stage, usage_found)
    /\ events' = Append(events, CompleteEvent(conn, full_text, usage_found, start, now))
    /\ spc' = "complete_yielded"
    /\ UNCHANGED <<inferRest, benchVars, extraVars, now, start, stage, full_text, usage_found, sopened, sopen,
                   sread, prim_end, fb_end, fb_from, usage_src, usage_seen>>

\* the consumer resumes the generator after a terminal event
S_Resume ==
    /\ spc \in {"error_yielded", "complete_yielded"}
    /\ spc' = IF spc = "error_yielded" THEN AfterErrorYield(stage) ELSE "done"
    /\ UNCHANGED <<inferRest, benchVars, extraVars, now, start, stage, events, full_text, usage_found, sopened,
                   sopen, sread, prim_end, fb_end, fb_from, usage_src, usage_seen>>

NextStream ==
    \/ S_Open
    \/ S_OpenFails
    \/ S_Line
    \/ S_Ends
    \/ S_Fails
    \/ S_Fallback
    \/ S_Complete
    \/ S_Resume

SpecStream == InitStream /\ [][NextStream]_vars

----------------------------------------------------------------------------
\* run_benchmark

MaxPrompts == 2      \* a request holds 1..MaxPrompts prompts
MaxRuns == 2         \* num_runs is 1..MaxRuns

AllInputs == <<"p", "q", "r", "s">>
Digits == <<"1", "2", "3", "4">>
\* the score the judge reports for result i
JudgeScore(i) == 7 * i - 8

RECURSIVE SumSeq(_)
SumSeq(q) == IF q = <<>> THEN 0 ELSE q[1] + SumSeq(Tail(q))

\* round(a / n) of Python 3: to the nearest integer, a tie to the even one
RoundHalfEven(a, n) ==
    LET q == a \div n
        r == a % n
    IN  IF 2 * r < n THEN q
        ELSE IF 2 * r > n THEN q + 1
        ELSE IF q % 2 = 0 THEN q ELSE q + 1

\* round(a / n, 1) of a sum a of latencies given in tenths: the nearest tenth;
\* on a decimal tie the binary value of the quotient decides, either way
RoundTenths(a, n) ==
    LET q == a \div n
        r == a % n
    IN  IF 2 * r < n THEN {q}
        ELSE IF 2 * r > n THEN {q + 1}
        ELSE {q, q + 1}

\* what connector.run_inference returns for call k of prompt i; the server
\* of every second prompt reports no total_tokens, which the connectors read
\* as 0 and only Chat Completions can deliver
InferOk(i, k) ==
    [response_text |-> <<AllInputs[i], Digits[k]>>,
     usage |-> TokenUsage(i, k, IF i % 2 = 0 THEN 0 ELSE i + k),
     latency_ms |-> 10 * i + k,
     api_used |-> IF k % 2 = 1 /\ i % 2 = 1 THEN "responses" ELSE "chat_completions",
     error |-> None]
InferErr(i, k) ==
    [response_text |-> <<>>,
     usage |-> DefaultUsage,
     latency_ms |-> k,
     api_used |-> "",
     error |-> Some("ReadTimeout")]
InferResults(i, k) == {InferOk(i, k), InferErr(i, k)}

\* schemas.BenchmarkTestResult
BenchmarkTestResult(prompt, text, usage, latency, api_used, error) ==
    [prompt |-> prompt,
     response_text |-> text,
     usage |-> usage,
     latency_ms |-> latency,
     api_used |-> api_used,
     error |-> error,
     quality_score |-> None,
     quality_reasoning |-> <<>>]

\* run_single_prompt on the InferenceResult r of the connector
run_single_prompt(prompt, r) ==
    BenchmarkTestResult(prompt, r.response_text, r.usage, r.latency_ms, r.api_used, r.error)

IsOk(r) == r.error = None
Successful(rs) == SelectSeq(rs, IsOk)
InputTokens(rs) == [k \in 1..Len(rs) |-> rs[k].usage.input_tokens]
OutputTokens(rs) == [k \in 1..Len(rs) |-> rs[k].usage.output_tokens]
TotalTokens(rs) == [k \in 1..Len(rs) |-> rs[k].usage.total_tokens]
Latencies(rs) == [k \in 1..Len(rs) |-> rs[k].latency_ms]

\* (mutant) range(num_runs - 1)
Repeats_OneShort(n) == IF n <= 1 THEN 1 ELSE n - 1

\* the number of inference calls _run_single_prompt_multi issues
Repeats(n) == IF n <= 1 THEN 1 ELSE n

\* (mutant) the averages are taken over all repeats and the text from the last
Reduced_AllRepeats(prompt, n, rs) ==
    IF n <= 1 THEN {rs[1]}
    ELSE IF Successful(rs) = <<>> THEN {rs[1]}
         ELSE {BenchmarkTestResult(
                   prompt,
                   rs[Len(rs)].response_text,
                   TokenUsage(RoundHalfEven(SumSeq(InputTokens(rs)), Len(rs)),
                              RoundHalfEven(SumSeq(OutputTokens(rs)), Len(rs)),
                              RoundHalfEven(SumSeq(TotalTokens(rs)), Len(rs))),
                   lat,
                   rs[Len(rs)].api_used,
                   None) : lat \in RoundTenths(SumSeq(Latencies(rs)), Len(rs))}

\* (mutant) when every repeat failed the last failing result is returned
Reduced_LastFailure(prompt, n, rs) ==
    IF n <= 1 THEN {rs[1]}
    ELSE LET ok == Successful(rs) IN
         IF ok = <<>> THEN {rs[Len(rs)]}
         ELSE {BenchmarkTestResult(
                   prompt,
                   ok[Len(ok)].response_text,
                   TokenUsage(RoundHalfEven(SumSeq(InputTokens(ok)), Len(ok)),
                              RoundHalfEven(SumSeq(OutputTokens(ok)), Len(ok)),
                              RoundHalfEven(SumSeq(TotalTokens(ok)), Len(ok))),
                   lat,
                   ok[Len(ok)].api_used,
                   None) : lat \in RoundTenths(SumSeq(Latencies(ok)), Len(ok))}

\* the results _run_single_prompt_multi can return for the repeats rs
Reduced(prompt, n, rs) ==
    IF n <= 1 THEN {rs[1]}
    ELSE LET ok == Successful(rs) IN
         IF ok = <<>> THEN {rs[1]}
         ELSE {BenchmarkTestResult(
                   prompt,
                   ok[Len(ok)].response_text,
                   TokenUsage(RoundHalfEven(SumSeq(InputTokens(ok)), Len(ok)),
                              RoundHalfEven(SumSeq(OutputTokens(ok)), Len(ok)),
                              RoundHalfEven(SumSeq(TotalTokens(ok)), Len(ok))),
                   lat,
                   ok[Len(ok)].api_used,
                   None) : lat \in RoundTenths(SumSeq(Latencies(ok)), Len(ok))}

\* (mutant) asyncio.gather(*tasks): the first exception propagates
Gather_Propagates == FALSE

\* asyncio.gather(*tasks, return_exceptions=True)
GatherReturnsExceptions == TRUE

IsException(r) == "exception" \in DOMAIN r

\* (mutant) the error result is built with the first prompt's input
Convert_FirstPrompt(i, r) ==
    IF IsException(r)
    THEN [prompt |-> prompts[1], response_text |-> <<>>, usage |-> DefaultUsage,
          latency_ms |-> 0, api_used |-> "", error |-> Some(r.exception),
          quality_score |-> None, quality_reasoning |-> <<>>]
    ELSE r

\* one slot of raw_results becomes one entry of results
Convert(i, r) ==
    IF IsException(r)
    THEN BenchmarkTestResult(prompts[i], <<>>, DefaultUsage, 0, "", Some(r.exception))
    ELSE r

\* (mutant) min(10.0, score)
clamp_UpperOnly(v) == IF v > 10 THEN 10 ELSE v

\* max(1.0, min(10.0, score))
clamp(v) == IF v < 1 THEN 1 ELSE IF v > 10 THEN 10 ELSE v

\* max(1.0, min(10.0, nan)): every comparison with nan is false, so min keeps
\* its first argument 10.0
clamp_nan == 10

noop_score == [score |-> None, reasoning |-> <<>>]

\* `server_url or config.optimizer.server_url`, `model or config.optimizer.model`
JudgeServer(server_url, opt_server_url) ==
    IF server_url # "" THEN server_url ELSE opt_server_url
JudgeModel(model, opt_model) == IF model # "" THEN model ELSE opt_model

\* whether score_response, called by run_benchmark with the request's
\* server_url and judge_model_id, ends up with a judge server and model
HasJudge(req_server_url, judge_model_id, opt_server_url, opt_model) ==
    LET server_url == IF judge_model_id # "" THEN req_server_url ELSE ""
    IN  /\ JudgeServer(server_url, opt_server_url) # ""
        /\ JudgeModel(judge_model_id, opt_model) # ""

\* how the judge call of score_response can end: the POST, raise_for_status
\* or resp.json() raises; the output holds no text; the text holds no JSON
\* object; the object has no "score"; float(score) raises; or a score
JudgeExcKinds == {"ConnectError", "HTTPStatusError", "JSONDecodeError", "ValueError"}
JudgeFailKinds == JudgeExcKinds \cup {"empty_text", "not_json", "no_score"}
JudgeReply(kind, score, reasoning) == [kind |-> kind, score |-> score, reasoning |-> reasoning]
JudgeOutcomes(i) ==
    {JudgeReply(k, 0, <<>>) : k \in JudgeFailKinds}
    \cup {JudgeReply("scored", JudgeScore(i), <<"r", Digits[i]>>)}

\* (mutant) `except httpx.HTTPError`: a bad body or score leaves score_response
ScorerCatches_HttpxOnly(e) == e \in {"ConnectError", "HTTPStatusError"}

\* `except Exception` of score_response
ScorerCatches(e) == TRUE

\* what score_response returns for a judge call that ended with o
score_of(o) ==
    IF o.kind = "scored"
    THEN [score |-> Some(clamp(o.score)), reasoning |-> o.reasoning]
    ELSE IF o.kind = "scored_nan"
    THEN [score |-> Some(clamp_nan), reasoning |-> o.reasoning]
    ELSE noop_score

ScoreOutcomes(i) == {score_of(o) : o \in JudgeOutcomes(i)}

\* (mutant) every result is handed to score_response
ScoringTask_All(r) == "created"

\* the scoring task run_benchmark creates for the result r
ScoringTask(r) == IF r.error # None THEN "noop" ELSE "created"

Min(S) == CHOOSE x \in S : \A y \in S : x <= y
Max(S) == CHOOSE x \in S : \A y \in S : x >= y

\* (mutant) the aggregate total is the sum of the totals, even when it is 0
AggregateTotal_NoFallback(total_input, total_output, total_tokens) == total_tokens

\* total_tokens of the aggregate TokenUsage
AggregateTotal(total_input, total_output, total_tokens) ==
    IF total_tokens > 0 THEN total_tokens ELSE total_input + total_output

\* the BenchmarkResponses run_benchmark can build from its results
Responses(rs) ==
    LET ok == Successful(rs)
        total_input == SumSeq(InputTokens(ok))
        total_output == SumSeq(OutputTokens(ok))
        total_tokens == SumSeq(TotalTokens(ok))
        total_latency == SumSeq(Latencies(rs))
        latencies == Range(Latencies(ok))
    IN  {[results |-> rs,
          aggregate |-> TokenUsage(total_input, total_output,
                                   AggregateTotal(total_input, total_output, total_tokens)),
          avg_latency_ms |-> avg,
          min_latency_ms |-> IF ok # <<>> THEN Min(latencies) ELSE 0,
          max_latency_ms |-> IF ok # <<>> THEN Max(latencies) ELSE 0] :
         avg \in IF ok # <<>> THEN RoundTenths(total_latency, Len(ok)) ELSE {0}}

InitBench ==
    /\ conn = "llama_stack" /\ IdleInfer /\ now = 0 /\ start = 0
    /\ IdleStream
    /\ IdleScore /\ IdleSSE /\ IdleStats /\ IdleMore
    /\ \E n \in 1..MaxPrompts :
        /\ prompts = SubSeq(AllInputs, 1, n)
        /\ tpc = [i \in 1..n |-> "created"]
        /\ runs = [i \in 1..n |-> <<>>]
        /\ tcalls = [i \in 1..n |-> 0]
        /\ raw_results = [i \in 1..n |-> NoResult]
        /\ qpc = [i \in 1..n |-> "none"]
        /\ qcalls = [i \in 1..n |-> 0]
        /\ scores = [i \in 1..n |-> noop_score]
    /\ num_runs \in 1..MaxRuns
    /\ score_quality \in BOOLEAN
    /\ has_judge \in (IF score_quality
                      THEN {HasJudge("http://s", jm, os, om) :
                                jm \in {"", "judge"}, os \in {"", "http://o"},
                                om \in {"", "opt"}}
                      ELSE {FALSE})
    /\ bpc = "gather"
    /\ out_of_order = FALSE
    /\ results = <<>>
    /\ response = NoResult

others == <<inferVars, streamVars, extraVars>>
N == Len(prompts)

\* the task of prompt i starts and issues its first inference call
T_Start(i) ==
    /\ bpc = "gather" /\ tpc[i] = "created"
    /\ tpc' = [tpc EXCEPT ![i] = "calling"]
    /\ tcalls' = [tcalls EXCEPT ![i] = 1]
    /\ UNCHANGED <<others, prompts, num_runs, score_quality, has_judge, bpc, runs,
                   raw_results, out_of_order, results, qpc, qcalls, scores, response>>

\* an inference call of task i returns; the task issues its next repeat or
\* reduces the repeats and returns
T_CallReturns(i) ==
    /\ bpc = "gather" /\ tpc[i] = "calling"
    /\ \E r \in InferResults(i, tcalls[i]) :
        LET rs == Append(runs[i], run_single_prompt(prompts[i], r)) IN
        /\ runs' = [runs EXCEPT ![i] = rs]
        /\ IF Len(rs) < Repeats(num_runs)
           THEN /\ tcalls' = [tcalls EXCEPT ![i] = @ + 1]
                /\ UNCHANGED <<tpc, raw_results, out_of_order>>
           ELSE /\ \E red \in Reduced(prompts[i], num_runs, rs) :
                       raw_results' = [raw_results EXCEPT ![i] = red]
                /\ tpc' = [tpc EXCEPT ![i] = "returned"]
                /\ out_of_order' = (out_of_order \/ \E j \in 1..(i - 1) : tpc[j] \in {"created", "calling"})
                /\ UNCHANGED tcalls
    /\ UNCHANGED <<others, prompts, num_runs, score_quality, has_judge, bpc,
                   results, qpc, qcalls, scores, response>>

\* an inference call of task i raises instead of returning a result
T_CallRaises(i) ==
    /\ bpc = "gather" /\ tpc[i] = "calling"
    /\ tpc' = [tpc EXCEPT ![i] = "raised"]
    /\ out_of_order' = (out_of_order \/ \E j \in 1..(i - 1) : tpc[j] \in {"created", "calling"})
    /\ IF GatherReturnsExceptions
       THEN /\ raw_results' = [raw_results EXCEPT ![i] = [exception |-> "SSLError"]]
            /\ UNCHANGED bpc
       ELSE /\ bpc' = "raised"
            /\ UNCHANGED raw_results
    /\ UNCHANGED <<others, prompts, num_runs, score_quality, has_judge, runs, tcalls,
                   results, qpc, qcalls, scores, response>>

\* gather returns: results are built; with scoring the scoring tasks are
\* created, _noop_score for a failed result; without it the response is built
B_Collect ==
    /\ bpc = "gather"
    /\ \A i \in 1..N : tpc[i] \in {"returned", "raised"}
    /\ LET rs == [i \in 1..N |-> Convert(i, raw_results[i])] IN
        /\ results' = rs
        /\ IF score_quality
           THEN /\ qpc' = [i \in 1..N |-> ScoringTask(rs[i])]
                /\ scores' = [i \in 1..N |-> noop_score]
                /\ bpc' = "scoring"
                /\ out_of_order' = FALSE
                /\ UNCHANGED response
           ELSE /\ response' \in Responses(rs)
                /\ bpc' = "done"
                /\ UNCHANGED <<qpc, scores, out_of_order>>
    /\ UNCHANGED <<others, prompts, num_runs, score_quality, has_judge, tpc, runs, tcalls,
                   raw_results, qcalls>>

\* a scoring task of a lower index than i has not completed
EarlierScoring(i) == \E j \in 1..(i - 1) : qpc[j] \in {"created", "calling"}

\* score_response for result i: no judge, or the judge call is issued
Q_Start(i) ==
    /\ bpc = "scoring" /\ qpc[i] = "created"
    /\ IF has_judge
       THEN /\ qpc' = [qpc EXCEPT ![i] = "calling"]
            /\ qcalls' = [qcalls EXCEPT ![i] = @ + 1]
            /\ UNCHANGED <<scores, out_of_order>>
       ELSE /\ qpc' = [qpc EXCEPT ![i] = "done"]
            /\ scores' = [scores EXCEPT ![i] = noop_score]
            /\ out_of_order' = (out_of_order \/ EarlierScoring(i))
            /\ UNCHANGED qcalls
    /\ UNCHANGED <<others, prompts, num_runs, score_quality, has_judge, bpc, tpc, runs,
                   tcalls, raw_results, results, response>>

\* the judge call for result i ends and score_response returns; were it to
\* raise, the scoring gather raises and run_benchmark's `except Exception`
\* leaves every result unscored
Q_Returns(i) ==
    /\ bpc = "scoring" /\ qpc[i] = "calling"
    /\ \E o \in JudgeOutcomes(i) :
        IF o.kind \in JudgeExcKinds /\ ~ScorerCatches(o.kind)
        THEN /\ qpc' = [qpc EXCEPT ![i] = "raised"]
             /\ response' \in Responses(results)
             /\ bpc' = "done"
             /\ UNCHANGED <<scores, out_of_order>>
        ELSE /\ scores' = [scores EXCEPT ![i] = score_of(o)]
             /\ qpc' = [qpc EXCEPT ![i] = "done"]
             /\ out_of_order' = (out_of_order \/ EarlierScoring(i))
             /\ UNCHANGED <<bpc, response>>
    /\ UNCHANGED <<others, prompts, num_runs, score_quality, has_judge, tpc, runs,
                   tcalls, raw_results, results, qcalls>>

\* (mutant) the scoring gather returns with the first task that finished
ScoringDone_First(qp) == \E i \in DOMAIN qp : qp[i] \in {"done", "noop"}

\* `await asyncio.gather(*scoring_tasks)` returns: every task has finished
ScoringDone(qp) == \A i \in DOMAIN qp : qp[i] \in {"done", "noop"}

\* the scoring gather returns: scores are stored and the response is built
B_Finish ==
    /\ bpc = "scoring"
    /\ ScoringDone(qpc)
    /\ LET rs == [i \in 1..N |-> [results[i] EXCEPT
                                    !.quality_score = scores[i].score,
                                    !.quality_reasoning = scores[i].reasoning]] IN
        /\ results' = rs
        /\ response' \in Responses(rs)
    /\ bpc' = "done"
    /\ UNCHANGED <<others, prompts, num_runs, score_quality, has_judge, tpc, runs, tcalls,
                   raw_results, out_of_order, qpc, qcalls, scores>>

NextBench ==
    \/ \E i \in 1..N : T_Start(i)
    \/ \E i \in 1..N : T_CallReturns(i)
    \/ \E i \in 1..N : T_CallRaises(i)
    \/ B_Collect
    \/ \E i \in 1..N : Q_Start(i)
    \/ \E i \in 1..N : Q_Returns(i)
    \/ B_Finish

SpecBench == InitBench /\ [][NextBench]_vars

----------------------------------------------------------------------------
\* score_response, one call

MaxOver == 5         \* the judge reports scores in (1 - MaxOver)..(10 + MaxOver)

JudgeScores == (1 - MaxOver)..(10 + MaxOver)

\* how the judge call can end: as in JudgeOutcomes, with every score, and
\* with a score that float() reads as nan
JudgeReplies ==
    {JudgeReply(k, 0, <<>>) : k \in JudgeFailKinds}
    \cup {JudgeReply("scored", v, <<"r">>) : v \in JudgeScores}
    \cup {JudgeReply("scored_nan", 0, <<"r">>)}

\* no connector call, stream or benchmark is running
IdleConnectors ==
    /\ conn = "llama_stack" /\ IdleInfer /\ now = 0 /\ start = 0
    /\ IdleStream /\ IdleBench

InitScore ==
    /\ IdleConnectors /\ IdleSSE /\ IdleStats /\ IdleMore
    /\ jargs \in [server_url : {"", "http://s"}, model : {"", "judge"}]
    /\ jconfig \in [server_url : {"", "http://o"}, model : {"", "opt"}]
    /\ jpc = "init"
    /\ jposts = 0
    /\ jreply = <<>>
    /\ jret = NoResult

scoreRest == <<inferVars, streamVars, benchVars, sseVars, statVars, moreVars>>

\* score_response up to its first await: without judge server or model it
\* returns (None, ""), else it POSTs the judge prompt
SR_Start ==
    /\ jpc = "init"
    /\ IF \/ JudgeServer(jargs.server_url, jconfig.server_url) = ""
          \/ JudgeModel(jargs.model, jconfig.model) = ""
       THEN /\ jret' = noop_score
            /\ jpc' = "done"
            /\ UNCHANGED jposts
       ELSE /\ jposts' = jposts + 1
            /\ jpc' = "calling"
            /\ UNCHANGED jret
    /\ UNCHANGED <<scoreRest, jargs, jconfig, jreply>>

\* the judge call ends and score_response returns
SR_Returns ==
    /\ jpc = "calling"
    /\ \E o \in JudgeReplies :
        /\ jreply' = o
        /\ IF o.kind \in JudgeExcKinds /\ ~ScorerCatches(o.kind)
           THEN jpc' = "raised" /\ UNCHANGED jret
           ELSE jpc' = "done" /\ jret' = score_of(o)
    /\ UNCHANGED <<scoreRest, jargs, jconfig, jposts>>

NextScore == SR_Start \/ SR_Returns

SpecScore == InitScore /\ [][NextScore]_vars

----------------------------------------------------------------------------
\* the latency statistics of run_benchmark: sorted latencies and _percentile

MaxResults == 4      \* the statistics are taken over 0..MaxResults results
MaxLat == 4          \* a successful result has latency_ms 10, 20 .. 10 * MaxLat

\* latency_ms and error of a result: successful, or failed with latency 5
StatResults ==
    {[latency_ms |-> 10 * k, error |-> None] : k \in 1..MaxLat}
    \cup {[latency_ms |-> 5, error |-> Some("ReadTimeout")]}

\* the p values _percentile is called with
Ps == {5 * j : j \in 0..20}

\* sorted(): q is ascending, x is put after the values not above it
InsertSorted(x, q) ==
    LET k == Cardinality({j \in 1..Len(q) : q[j] <= x})
    IN  SubSeq(q, 1, k) \o <<x>> \o SubSeq(q, k + 1, Len(q))

RECURSIVE sorted(_)
sorted(q) == IF q = <<>> THEN <<>> ELSE InsertSorted(Head(q), sorted(Tail(q)))

\* (mutant) the two weights of the interpolation are exchanged
percentile100_SwappedWeights(values, p) ==
    IF values = <<>> THEN 0
    ELSE LET k100 == (Len(values) - 1) * p
             f == k100 \div 100
             c == IF k100 % 100 = 0 THEN f ELSE f + 1
         IN  IF f = c THEN 100 * values[f + 1]
             ELSE values[f + 1] * (k100 - 100 * f) + values[c + 1] * (100 * c - k100)

\* 100 * _percentile(values, p), exactly: k100 is 100 * k, the lists of the
\* model are indexed from 1
percentile100(values, p) ==
    IF values = <<>> THEN 0
    ELSE LET k100 == (Len(values) - 1) * p
             f == k100 \div 100
             c == IF k100 % 100 = 0 THEN f ELSE f + 1
         IN  IF f = c THEN 100 * values[f + 1]
             ELSE values[f + 1] * (100 * c - k100) + values[c + 1] * (k100 - 100 * f)

InitStats ==
    /\ IdleConnectors /\ IdleScore /\ IdleSSE /\ IdleMore
    /\ \E n \in 0..MaxResults : st_results \in [1..n -> StatResults]
    /\ sorted_values = <<>>
    /\ pctl_p = 0
    /\ pctl = 0
    /\ stpc = "init"

statRest == <<inferVars, streamVars, benchVars, scoreVars, sseVars, moreVars>>

\* latencies = sorted(r.latency_ms for r in successful)
ST_Sort ==
    /\ stpc = "init"
    /\ sorted_values' = sorted(Latencies(Successful(st_results)))
    /\ stpc' = "sorted"
    /\ UNCHANGED <<statRest, st_results, pctl_p, pctl>>

\* _percentile(latencies, p)
ST_Percentile ==
    /\ stpc = "sorted"
    /\ \E p \in Ps :
        /\ pctl_p' = p
        /\ pctl' = percentile100(sorted_values, p)
    /\ stpc' = "done"
    /\ UNCHANGED <<statRest, st_results, sorted_values>>

NextStats == ST_Sort \/ ST_Percentile

SpecStats == InitStats /\ [][NextStats]_vars

----------------------------------------------------------------------------
\* parse_sse_lines, one generator; a line is a sequence of characters

MaxInput == 4        \* the iterator delivers 0..MaxInput lines

DataPrefix == <<"d", "a", "t", "a", ":", " ">>
DoneText == <<"[", "D", "O", "N", "E", "]">>
DigitChars == <<"0", "1", "2", "3", "4", "5", "6", "7", "8", "9">>

L_Empty == <<>>
L_Comment == <<":", "k">>
L_Other == <<"i", "d", ":", " ", "1">>
L_Data1 == DataPrefix \o <<"1">>
L_DataWide2 == DataPrefix \o <<" ", "2">>
L_BadJson == DataPrefix \o <<"x">>
L_Done == DataPrefix \o DoneText
L_DonePadded == <<" ">> \o DataPrefix \o DoneText \o <<" ">>

\* the lines a server stream is made of
RawLines == {L_Empty, L_Comment, L_Other, L_Data1, L_DataWide2, L_BadJson,
             L_Done, L_DonePadded}

RECURSIVE lstrip(_)
lstrip(str) == IF str # <<>> /\ str[1] = " " THEN lstrip(Tail(str)) ELSE str
RECURSIVE rstrip(_)
rstrip(str) ==
    IF str # <<>> /\ str[Len(str)] = " "
    THEN rstrip(SubSeq(str, 1, Len(str) - 1)) ELSE str
\* str.strip()
strip(str) == rstrip(lstrip(str))

\* str.startswith(prefix)
startswith(str, prefix) ==
    Len(str) >= Len(prefix) /\ SubSeq(str, 1, Len(prefix)) = prefix

\* json.loads on the JSON texts of the model: a digit between optional
\* whitespace is a number, everything else raises JSONDecodeError (None)
json_loads(str) ==
    LET t == strip(str) IN
    IF Len(t) = 1 /\ \E d \in 1..10 : DigitChars[d] = t[1]
    THEN Some([number |-> (CHOOSE d \in 1..10 : DigitChars[d] = t[1]) - 1])
    ELSE None

DoneSentinel == [type |-> "__done__"]

\* (mutant) `continue` after the sentinel instead of `return`
AfterDone_Continues == "running"

\* where the generator is after it yielded the sentinel: before `return`
AfterDone == "done_yielded"

InitSSE ==
    /\ IdleConnectors /\ IdleScore /\ IdleStats /\ IdleMore
    /\ \E n \in 0..MaxInput : response_lines \in [1..n -> RawLines]
    /\ consumed = 0
    /\ yielded = <<>>
    /\ ppc = "running"

sseRest == <<inferVars, streamVars, benchVars, scoreVars, statVars, moreVars>>

\* one iteration of `async for line in response_lines`
P_Line ==
    /\ ppc = "running" /\ consumed < Len(response_lines)
    /\ consumed' = consumed + 1
    /\ LET line == strip(response_lines[consumed + 1]) IN
        IF line = <<>> \/ startswith(line, <<":">>)
        THEN UNCHANGED <<yielded, ppc>>
        ELSE IF startswith(line, DataPrefix)
        THEN LET data_str == SubSeq(line, 7, Len(line)) IN
             IF data_str = DoneText
             THEN /\ yielded' = Append(yielded, DoneSentinel)
                  /\ ppc' = AfterDone
             ELSE IF json_loads(data_str) # None
             THEN /\ yielded' = Append(yielded, json_loads(data_str)[1])
                  /\ UNCHANGED ppc
             ELSE UNCHANGED <<yielded, ppc>>
        ELSE UNCHANGED <<yielded, ppc>>
    /\ UNCHANGED <<sseRest, response_lines>>

\* the generator is resumed after the sentinel: `return`
P_Return ==
    /\ ppc = "done_yielded"
    /\ ppc' = "returned"
    /\ UNCHANGED <<sseRest, response_lines, consumed, yielded>>

\* the iterator is exhausted: the loop and the generator end
P_Exhausted ==
    /\ ppc = "running" /\ consumed = Len(response_lines)
    /\ ppc' = "returned"
    /\ UNCHANGED <<sseRest, response_lines, consumed, yielded>>

NextSSE == P_Line \/ P_Return \/ P_Exhausted

SpecSSE == InitSSE /\ [][NextSSE]_vars

-----------------------------------------------------------------------------
\* std_dev_tokens of run_benchmark; a deviation is held in tenths of a token

MaxSample == 4       \* run_benchmark has 0..MaxSample results

SampleTokens == {15, 90, 100, 110}

\* what the deviation reads of a BenchmarkTestResult
SampleResults ==
    {[usage |-> [total_tokens |-> t], error |-> None] : t \in SampleTokens}
    \cup {[usage |-> [total_tokens |-> 0], error |-> Some("ReadTimeout")]}

Sq(x) == x * x

RECURSIVE SumSqDev(_, _, _)
\* sum((t - s / n) ** 2 for t in tc), times n * n
SumSqDev(tc, n, s) ==
    IF tc = <<>> THEN 0 ELSE Sq(n * Head(tc) - s) + SumSqDev(Tail(tc), n, s)

\* (mutant) the squared deviations are divided by len(token_counts)
std_dev_sq_Population(tc) ==
    IF Len(tc) > 1
    THEN [num |-> SumSqDev(tc, Len(tc), SumSeq(tc)), den |-> Len(tc) * Len(tc) * Len(tc)]
    ELSE [num |-> 0, den |-> 1]

\* the square of `std_dev`: 0.0, or with more than one count the squared
\* deviations from the mean divided by len(token_counts) - 1
std_dev_sq(tc) ==
    IF Len(tc) > 1
    THEN [num |-> SumSqDev(tc, Len(tc), SumSeq(tc)), den |-> Len(tc) * Len(tc) * (Len(tc) - 1)]
    ELSE [num |-> 0, den |-> 1]

\* round(math.sqrt(v), 1), in tenths: the k nearest to 10 * sqrt(v.num / v.den),
\* either neighbour where the root lies half way
round_sqrt_tenths(v) ==
    {k \in 0..(10 * Max(SampleTokens)) :
        /\ k > 0 => Sq(2 * k - 1) * v.den <= 400 * v.num
        /\ 400 * v.num <= Sq(2 * k + 1) * v.den}

InitStdDev ==
    /\ IdleConnectors /\ IdleScore /\ IdleSSE /\ IdleStats /\ IdleDiscover /\ IdleRoute
    /\ IdleExtract
    /\ \E n \in 0..MaxSample : sd_results \in [1..n -> SampleResults]
    /\ token_counts = <<>>
    /\ std_dev = [num |-> 0, den |-> 1]
    /\ std_dev_tokens = 0
    /\ sdpc = "init"

sdRest == <<inferVars, streamVars, benchVars, scoreVars, sseVars, statVars, discVars, routeVars,
           extractVars>>

\* token_counts = [float(r.usage.total_tokens) for r in successful]
SD_Collect ==
    /\ sdpc = "init"
    /\ token_counts' = TotalTokens(Successful(sd_results))
    /\ sdpc' = "collected"
    /\ UNCHANGED <<sdRest, sd_results, std_dev, std_dev_tokens>>

\* std_dev = 0.0, replaced when len(token_counts) > 1
SD_StdDev ==
    /\ sdpc = "collected"
    /\ std_dev' = std_dev_sq(token_counts)
    /\ sdpc' = "computed"
    /\ UNCHANGED <<sdRest, sd_results, token_counts, std_dev_tokens>>

\* std_dev_tokens=round(std_dev, 1)
SD_Return ==
    /\ sdpc = "computed"
    /\ std_dev_tokens' \in round_sqrt_tenths(std_dev)
    /\ sdpc' = "done"
    /\ UNCHANGED <<sdRest, sd_results, token_counts, std_dev>>

NextStdDev == SD_Collect \/ SD_StdDev \/ SD_Return

SpecStdDev == InitStdDev /\ [][NextStdDev]_vars

-----------------------------------------------------------------------------
\* discover_models, one call

MaxEntries == 2      \* a discovery answer lists 0..MaxEntries entries

\* an entry of the answered list: a JSON object, or None for a JSON value
\* without .get (null)
E_Id == Some([id |-> "m1"])
E_Identifier == Some([identifier |-> "m2"])
E_EmptyId == Some([id |-> ""])
E_NullMetadata == Some([id |-> "m3", metadata |-> "null"])
E_Null == None
Entries == {E_Id, E_Identifier, E_EmptyId, E_NullMetadata, E_Null}

DiscoverExcKinds == {"ConnectError", "HTTPStatusError", "JSONDecodeError"}

\* what a discovery endpoint answers: the GET, raise_for_status() or
\* resp.json() raises, or the body is {"data": [...]} ("wrapped"), a list
\* ("bare") or an object without "data" ("object")
DiscoverReplies ==
    {[exc |-> Some(e), shape |-> "none", entries |-> <<>>] : e \in DiscoverExcKinds}
    \cup {[exc |-> None, shape |-> "object", entries |-> <<>>]}
    \cup {[exc |-> None, shape |-> sh, entries |-> es] :
            sh \in {"wrapped", "bare"},
            es \in UNION {[1..n -> Entries] : n \in 0..MaxEntries}}

ModelInfo(id, display_name) == [id |-> id, display_name |-> display_name]

PrimaryPath == "/v1/models"
SecondaryPath == "/v1/openai/v1/models"

\* the loop body of the stack connector's primary listing for one entry:
\* the models it appends and the exception it raises
stack_entry(m) ==
    IF m = None THEN [add |-> <<>>, exc |-> Some("AttributeError")]
    ELSE LET model_id == Get(m[1], "id", Get(m[1], "identifier", ""))
         IN  IF model_id = "" THEN [add |-> <<>>, exc |-> None]
             ELSE IF Get(m[1], "metadata", "dict") # "dict"
                  THEN [add |-> <<>>, exc |-> Some("ValidationError")]
                  ELSE [add |-> <<ModelInfo(model_id, Get(m[1], "id", model_id))>>, exc |-> None]

\* the loop body of the OpenAI-style listing for one entry
openai_entry(m) ==
    IF m = None THEN [add |-> <<>>, exc |-> Some("AttributeError")]
    ELSE LET model_id == Get(m[1], "id", "")
         IN  IF model_id = "" THEN [add |-> <<>>, exc |-> None]
             ELSE [add |-> <<ModelInfo(model_id, model_id)>>, exc |-> None]

EntryStep(style, m) == IF style = "stack" THEN stack_entry(m) ELSE openai_entry(m)

RECURSIVE ListEntries(_, _, _)
\* `for m in ...: models.append(...)` from the list acc: the list when the
\* loop ends or raises, and the exception raised
ListEntries(style, es, acc) ==
    IF es = <<>> THEN [models |-> acc, exc |-> None]
    ELSE LET st == EntryStep(style, Head(es))
         IN  IF st.exc # None THEN [models |-> acc, exc |-> st.exc]
             ELSE ListEntries(style, Tail(es), acc \o st.add)

\* one try block: the request, raise_for_status(), resp.json() and the loop
\* appending to `models`
Listing(style, reply, acc) ==
    IF reply.exc # None THEN [models |-> acc, exc |-> reply.exc]
    ELSE IF reply.shape = "object" THEN [models |-> acc, exc |-> None]
    ELSE IF style = "openai" /\ reply.shape = "bare"
         THEN [models |-> acc, exc |-> Some("AttributeError")]
    ELSE ListEntries(style, reply.entries, acc)

\* the listing style of a connector's primary endpoint
PrimaryStyle(c) == IF c = "llama_stack" THEN "stack" ELSE "openai"

\* the except branch of the primary try block asks the secondary endpoint
HasSecondary(c, r) == c = "llama_stack" /\ r.exc # None

InitDiscover ==
    /\ conn \in {"llama_stack", "openai"}
    /\ IdleInfer /\ now = 0 /\ start = 0 /\ IdleStream /\ IdleBench
    /\ IdleScore /\ IdleSSE /\ IdleStats /\ IdleStdDev /\ IdleRoute /\ IdleExtract
    /\ dpc = "init" /\ dreqs = <<>> /\ dprim = None /\ dsec = None
    /\ models = <<>> /\ dret = None

discRest == <<inferVars, streamVars, benchVars, scoreVars, sseVars, statVars, sdVars, routeVars,
             extractVars>>

\* client.get(f"{server_url}/v1/models") is issued
D_GetPrimary ==
    /\ dpc = "init"
    /\ dreqs' = Append(dreqs, PrimaryPath)
    /\ dpc' = "primary"
    /\ UNCHANGED <<discRest, dprim, dsec, models, dret>>

\* the primary request ends and its try block runs to its end or to an exception
D_PrimaryReturns ==
    /\ dpc = "primary"
    /\ \E reply \in DiscoverReplies :
        LET r == Listing(PrimaryStyle(conn), reply, models)
        IN  /\ dprim' = Some(reply)
            /\ models' = r.models
            /\ dpc' = IF HasSecondary(conn, r) THEN "except" ELSE "return"
    /\ UNCHANGED <<discRest, dreqs, dsec, dret>>

\* client.get(f"{server_url}/v1/openai/v1/models") is issued
D_GetSecondary ==
    /\ dpc = "except"
    /\ dreqs' = Append(dreqs, SecondaryPath)
    /\ dpc' = "secondary"
    /\ UNCHANGED <<discRest, dprim, dsec, models, dret>>

\* the secondary request ends and its try block runs to its end or to an exception
D_SecondaryReturns ==
    /\ dpc = "secondary"
    /\ \E reply \in DiscoverReplies :
        /\ dsec' = Some(reply)
        /\ models' = Listing("openai", reply, models).models
        /\ dpc' = "return"
    /\ UNCHANGED <<discRest, dreqs, dprim, dret>>

\* return models
D_Return ==
    /\ dpc = "return"
    /\ dret' = Some(models)
    /\ dpc' = "done"
    /\ UNCHANGED <<discRest, dreqs, dprim, dsec, models>>

NextDiscover ==
    \/ D_GetPrimary
    \/ D_PrimaryReturns
    \/ D_GetSecondary
    \/ D_SecondaryReturns
    \/ D_Return

SpecDiscover == InitDiscover /\ [][NextDiscover]_vars

-----------------------------------------------------------------------------
\* The routers that take a server URL, one request; a hostname is a sequence
\* of characters

MaxHops == 1         \* run_benchmark invokes run_inference 1..MaxHops times

H_Example == <<"l", "l", "a", "m", "a", ".", "e", "x", "a", "m", "p", "l", "e", ".", "c", "o", "m">>
H_Localhost == <<"l", "o", "c", "a", "l", "h", "o", "s", "t">>
H_Private10 == <<"1", "0", ".", "0", ".", "0", ".", "1">>
H_Metadata == <<"1", "6", "9", ".", "2", "5", "4", ".", "1", "6", "9", ".", "2", "5", "4">>
H_Private172 == <<"1", "7", "2", ".", "2", "0", ".", "0", ".", "1">>
H_Reserved == <<"2", "4", "0", ".", "0", ".", "0", ".", "1">>
H_LoopbackV6 == <<":", ":", "1">>
H_Public == <<"8", ".", "8", ".", "8", ".", "8">>

\* security.blocked_url_patterns of the default configuration
blocked_url_patterns ==
    {<<"1", "6", "9", ".", "2", "5", "4", ".">>,
     <<"1", "2", "7", ".", "0", ".", "0", ".">>,
     <<"1", "0", ".">>,
     <<"1", "7", "2", ".", "1", "6", ".">>,
     <<"1", "9", "2", ".", "1", "6", "8", ".">>,
     <<"l", "o", "c", "a", "l", "h", "o", "s", "t">>,
     <<"[", ":", ":", "1", "]">>}

\* urlparse(url) of the URLs a caller sends: the scheme, the hostname and
\* what ipaddress.ip_address(hostname) gives ("none": ValueError)
Url(scheme, hostname, ip) == [scheme |-> scheme, hostname |-> hostname, ip |-> ip]

Urls ==
    {Url("https", H_Example, "none"),
     Url("http", H_Public, "global"),
     Url("http", H_Localhost, "none"),
     Url("http", H_Private10, "private"),
     Url("http", H_Metadata, "link_local"),
     Url("http", H_Private172, "private"),
     Url("http", H_Reserved, "reserved"),
     Url("http", H_LoopbackV6, "loopback"),
     Url("ftp", H_Example, "none"),
     Url("http", <<>>, "none")}

\* `pattern in hostname`
Contains(hostname, pattern) ==
    \E i \in 1..(Len(hostname) - Len(pattern) + 1) :
        SubSeq(hostname, i, i + Len(pattern) - 1) = pattern

\* validate_server_url: the error message, None for an allowed URL
validate_server_url(url) ==
    IF url.scheme \notin {"http", "https"} THEN Some("Unsupported scheme")
    ELSE IF url.hostname = <<>> THEN Some("Missing hostname")
    ELSE IF \E pattern \in blocked_url_patterns : Contains(url.hostname, pattern)
         THEN Some("URL is not allowed")
    ELSE IF url.ip \in {"private", "loopback", "link_local", "reserved"}
         THEN Some("URL is not allowed")
    ELSE None

Endpoints == {"discover", "server_health", "benchmark_run"}

\* a connector operation invoked with a server URL
ConnectorCall(op, provider, url) == [op |-> op, provider |-> provider, url |-> url]

InitRoute ==
    /\ IdleConnectors /\ IdleScore /\ IdleSSE /\ IdleStats /\ IdleStdDev /\ IdleDiscover
    /\ IdleExtract
    /\ endpoint \in Endpoints
    /\ rurl \in Urls
    /\ rprovider \in {"llama_stack", "openai"}
    /\ rpc = "received"
    /\ rcalls = <<>>
    /\ rstatus = 0

routeRest == <<inferVars, streamVars, benchVars, scoreVars, sseVars, statVars, sdVars, discVars,
              extractVars>>

\* POST /api/discover: the URL is validated, then check_health is invoked
Discover ==
    /\ endpoint = "discover" /\ rpc = "received"
    /\ IF validate_server_url(rurl) # None
       THEN /\ rstatus' = 400
            /\ rpc' = "done"
            /\ UNCHANGED rcalls
       ELSE /\ rcalls' = Append(rcalls, ConnectorCall("check_health", rprovider, rurl))
            /\ rpc' = "check_health"
            /\ UNCHANGED rstatus
    /\ UNCHANGED <<routeRest, endpoint, rurl, rprovider>>

\* check_health returns to discover: unhealthy is answered at once, healthy
\* goes on to discover_models
DiscoverHealthReturns ==
    /\ endpoint = "discover" /\ rpc = "check_health"
    /\ \E healthy \in BOOLEAN :
        IF ~healthy
        THEN /\ rstatus' = 200
             /\ rpc' = "done"
             /\ UNCHANGED rcalls
        ELSE /\ rcalls' = Append(rcalls, ConnectorCall("discover_models", rprovider, rurl))
             /\ rpc' = "discover_models"
             /\ UNCHANGED rstatus
    /\ UNCHANGED <<routeRest, endpoint, rurl, rprovider>>

\* discover_models returns to discover, which invokes discover_tools
DiscoverModelsReturns ==
    /\ endpoint = "discover" /\ rpc = "discover_models"
    /\ rcalls' = Append(rcalls, ConnectorCall("discover_tools", rprovider, rurl))
    /\ rpc' = "discover_tools"
    /\ UNCHANGED <<routeRest, endpoint, rurl, rprovider, rstatus>>

\* discover_tools returns and discover answers
DiscoverToolsReturns ==
    /\ endpoint = "discover" /\ rpc = "discover_tools"
    /\ rstatus' = 200
    /\ rpc' = "done"
    /\ UNCHANGED <<routeRest, endpoint, rurl, rprovider, rcalls>>

\* GET /api/health/server: the URL is validated, then check_health of the
\* default connector is invoked
ServerHealth ==
    /\ endpoint = "server_health" /\ rpc = "received"
    /\ IF validate_server_url(rurl) # None
       THEN /\ rstatus' = 400
            /\ rpc' = "done"
            /\ UNCHANGED rcalls
       ELSE /\ rcalls' = Append(rcalls, ConnectorCall("check_health", "llama_stack", rurl))
            /\ rpc' = "check_health"
            /\ UNCHANGED rstatus
    /\ UNCHANGED <<routeRest, endpoint, rurl, rprovider>>

\* check_health returns and server_health answers with its result
ServerHealthReturns ==
    /\ endpoint = "server_health" /\ rpc = "check_health"
    /\ rstatus' = 200
    /\ rpc' = "done"
    /\ UNCHANGED <<routeRest, endpoint, rurl, rprovider, rcalls>>

\* POST /api/benchmark/run: run_benchmark(req) is awaited; its tasks invoke
\* run_inference with req.server_url
BenchmarkRun ==
    /\ endpoint = "benchmark_run" /\ rpc \in {"received", "run_benchmark"}
    /\ Len(rcalls) < MaxHops
    /\ rcalls' = Append(rcalls, ConnectorCall("run_inference", rprovider, rurl))
    /\ rpc' = "run_benchmark"
    /\ UNCHANGED <<routeRest, endpoint, rurl, rprovider, rstatus>>

\* run_benchmark returns and benchmark_run answers with the response
BenchmarkRunReturns ==
    /\ endpoint = "benchmark_run" /\ rpc = "run_benchmark"
    /\ rstatus' = 200
    /\ rpc' = "done"
    /\ UNCHANGED <<routeRest, endpoint, rurl, rprovider, rcalls>>

NextRoute ==
    \/ Discover
    \/ DiscoverHealthReturns
    \/ DiscoverModelsReturns
    \/ DiscoverToolsReturns
    \/ ServerHealth
    \/ ServerHealthReturns
    \/ BenchmarkRun
    \/ BenchmarkRunReturns

SpecRoute == InitRoute /\ [][NextRoute]_vars

-----------------------------------------------------------------------------
\* _extract_json, one call; a text is a sequence of the characters
\* { } [ ] " : , ` a j s o n 1 2, the space and the newline

MaxNest == 2         \* the objects of the texts nest up to MaxNest deep

Ws == {" ", "\n"}
NumChars == {"1", "2"}
Quote == "\""
\* the backtick character (a string cannot hold it)
Tick == "backtick"
Fence == <<Tick, Tick, Tick>>
JsonWord == <<"j", "s", "o", "n">>

\* what json.loads returns: an int, a str, a dict (o: its keys to their
\* values) or a list (a: its elements)
JNum(digits) == [t |-> "int", s |-> digits, o |-> <<>>, a |-> <<>>]
JStr(chars) == [t |-> "str", s |-> chars, o |-> <<>>, a |-> <<>>]
JObj(members) == [t |-> "dict", s |-> <<>>, o |-> members, a |-> <<>>]
JArr(elements) == [t |-> "list", s |-> <<>>, o |-> <<>>, a |-> elements]

\* a scan that raises JSONDecodeError
NoParse == [ok |-> FALSE, val |-> JNum(<<>>), rest |-> <<>>]
Parsed(val, rest) == [ok |-> TRUE, val |-> val, rest |-> rest]

RECURSIVE SkipWs(_)
SkipWs(str) == IF str # <<>> /\ str[1] \in Ws THEN SkipWs(Tail(str)) ELSE str

RECURSIVE DropWsRight(_)
DropWsRight(str) ==
    IF str # <<>> /\ str[Len(str)] \in Ws
    THEN DropWsRight(SubSeq(str, 1, Len(str) - 1)) ELSE str

\* str.strip() on these texts
strip_text(str) == DropWsRight(SkipWs(str))

\* a JSON string at the head of str: up to the next quote, no raw newline
ParseString(str) ==
    LET closes == {j \in 2..Len(str) : str[j] = Quote} IN
    IF closes = {} THEN NoParse
    ELSE LET j == Min(closes)
             body == SubSeq(str, 2, j - 1)
         IN  IF \E k \in 1..Len(body) : body[k] = "\n" THEN NoParse
             ELSE Parsed(JStr(body), SubSeq(str, j + 1, Len(str)))

RECURSIVE DigitRun(_)
DigitRun(str) == IF str # <<>> /\ str[1] \in NumChars THEN 1 + DigitRun(Tail(str)) ELSE 0

\* a JSON number at the head of str
ParseNumber(str) ==
    Parsed(JNum(SubSeq(str, 1, DigitRun(str))), SubSeq(str, DigitRun(str) + 1, Len(str)))

RECURSIVE ParseValue(_)
RECURSIVE ParseMembers(_, _)
RECURSIVE ParseElements(_, _)

\* the members of an object after `{` or `,`; a repeated key keeps the last value
ParseMembers(str, acc) ==
    IF str = <<>> \/ str[1] # Quote THEN NoParse
    ELSE LET k == ParseString(str) IN
         IF ~k.ok THEN NoParse
         ELSE LET u == SkipWs(k.rest) IN
              IF u = <<>> \/ u[1] # ":" THEN NoParse
              ELSE LET v == ParseValue(Tail(u)) IN
                   IF ~v.ok THEN NoParse
                   ELSE LET w == SkipWs(v.rest)
                            members == (k.val.s :> v.val) @@ acc
                        IN  IF w = <<>> THEN NoParse
                            ELSE IF w[1] = "}" THEN Parsed(JObj(members), Tail(w))
                            ELSE IF w[1] = "," THEN ParseMembers(SkipWs(Tail(w)), members)
                            ELSE NoParse

\* the elements of an array after `[` or `,`
ParseElements(str, acc) ==
    LET v == ParseValue(str) IN
    IF ~v.ok THEN NoParse
    ELSE LET w == SkipWs(v.rest) IN
         IF w = <<>> THEN NoParse
         ELSE IF w[1] = "]" THEN Parsed(JArr(Append(acc, v.val)), Tail(w))
         ELSE IF w[1] = "," THEN ParseElements(Tail(w), Append(acc, v.val))
         ELSE NoParse

\* a JSON value at the head of str, after whitespace
ParseValue(str) ==
    LET t == SkipWs(str) IN
    IF t = <<>> THEN NoParse
    ELSE IF t[1] = "{"
         THEN LET u == SkipWs(Tail(t)) IN
              IF u # <<>> /\ u[1] = "}" THEN Parsed(JObj(<<>>), Tail(u))
              ELSE ParseMembers(u, <<>>)
    ELSE IF t[1] = "["
         THEN LET u == SkipWs(Tail(t)) IN
              IF u # <<>> /\ u[1] = "]" THEN Parsed(JArr(<<>>), Tail(u))
              ELSE ParseElements(u, <<>>)
    ELSE IF t[1] = Quote THEN ParseString(t)
    ELSE IF t[1] \in NumChars THEN ParseNumber(t)
    ELSE NoParse

\* json.loads(str): the value, None where it raises JSONDecodeError
loads(str) ==
    LET r == ParseValue(str) IN
    IF r.ok /\ SkipWs(r.rest) = <<>> THEN Some(r.val) ELSE None

\* pat occurs in str at position i
IsAt(str, i, pat) ==
    i + Len(pat) - 1 <= Len(str) /\ SubSeq(str, i, i + Len(pat) - 1) = pat

\* where the group of ```(?:json)?\s*\n?(.*?)``` starts for a fence at i
FenceBody(str, i) ==
    LET a == IF IsAt(str, i + 3, JsonWord) THEN i + 7 ELSE i + 3
    IN  a + (Len(str) - a + 1 - Len(SkipWs(SubSeq(str, a, Len(str)))))

\* the closing fences the group started at p can end at
FenceCloses(str, p) == {j \in p..Len(str) : IsAt(str, j, Fence)}

\* the positions re.search can match the fence pattern at
FenceStarts(str) ==
    {i \in 1..Len(str) : IsAt(str, i, Fence) /\ FenceCloses(str, FenceBody(str, i)) # {}}

\* the text after `if fence_match: text = fence_match.group(1).strip()`
strip_fence(str) ==
    IF FenceStarts(str) = {} THEN str
    ELSE LET i == Min(FenceStarts(str))
             p == FenceBody(str, i)
             j == Min(FenceCloses(str, p))
         IN  strip_text(SubSeq(str, p, j - 1))

\* text.find("{"), counted from 1; 0 for -1
find_brace(str) ==
    IF \E i \in 1..Len(str) : str[i] = "{"
    THEN Min({i \in 1..Len(str) : str[i] = "{"}) ELSE 0

\* the candidate: closed with `depth` braces, or cut at `end`
candidate(str, first, depth, last) ==
    IF depth # 0
    THEN SubSeq(str, first, Len(str)) \o [k \in 1..depth |-> "}"]
    ELSE SubSeq(str, first, last)

RECURSIVE drop_trailing_commas(_)
\* re.sub(r",\s*([}\]])", r"\1", candidate)
drop_trailing_commas(str) ==
    IF str = <<>> THEN <<>>
    ELSE IF str[1] = ","
         THEN LET r == SkipWs(Tail(str)) IN
              IF r # <<>> /\ r[1] \in {"}", "]"}
              THEN <<r[1]>> \o drop_trailing_commas(Tail(r))
              ELSE <<",">> \o drop_trailing_commas(Tail(str))
    ELSE <<str[1]>> \o drop_trailing_commas(Tail(str))

\* the texts: JSON values with the value json.loads gives for them
JsonText(text, val) == [text |-> text, val |-> val]

Scalars ==
    {JsonText(<<"1">>, JNum(<<"1">>)),
     JsonText(<<Quote, "}", Quote>>, JStr(<<"}">>)),
     JsonText(<<Quote, "{", Quote>>, JStr(<<"{">>))}

RECURSIVE JsonObjects(_)
\* the empty object and the objects {"a": v} nested up to d deep
JsonObjects(d) ==
    {JsonText(<<"{", "}">>, JObj(<<>>))}
    \cup (IF d = 0 THEN {}
          ELSE {JsonText(<<"{", Quote, "a", Quote, ":", " ">> \o v.text \o <<"}">>,
                         JObj(<<"a">> :> v.val)) :
                    v \in Scalars \cup JsonObjects(d - 1)})

Wraps == {"alone", "fence_json", "fence", "prose", "cut"}

\* the text a model answers with for an object
Wrapped(wrap, text) ==
    CASE wrap = "alone" -> text
      [] wrap = "fence_json" -> Fence \o JsonWord \o <<"\n">> \o text \o <<"\n">> \o Fence
      [] wrap = "fence" -> Fence \o <<"\n">> \o text \o <<"\n">> \o Fence
      [] wrap = "prose" -> <<"a", ":", "\n">> \o text \o <<"\n", "a">>
      [] wrap = "cut" -> SubSeq(text, 1, Len(text) - 1)

\* texts that are not made from an object
OtherTexts ==
    {<<>>, <<"a", " ", "a">>, <<"1">>, <<"[", "1", "]">>,
     <<"{", Quote, "a", Quote, ":", "1", ",", "}">>,
     <<" ", "{", Quote, "a", Quote, ":", "[", "1", ",", " ", "]", "}", "\n">>}

ExtractInputs ==
    {[text |-> Wrapped(w, o.text), wrap |-> w, val |-> o.val] :
        w \in Wraps, o \in JsonObjects(MaxNest)}
    \cup {[text |-> t, wrap |-> "other", val |-> JNum(<<>>)] : t \in OtherTexts}

InitExtract ==
    /\ IdleConnectors /\ IdleScore /\ IdleSSE /\ IdleStats /\ IdleStdDev /\ IdleDiscover
    /\ IdleRoute
    /\ \E inp \in ExtractInputs : xinput = Some(inp)
    /\ xtext = <<>> /\ xstart = 0 /\ xi = 0 /\ xdepth = 0 /\ xend = 0
    /\ xcand = <<>> /\ xret = None /\ xpc = "init"

extractRest == <<inferVars, streamVars, benchVars, scoreVars, sseVars, statVars, sdVars, discVars,
                 routeVars>>

\* text = text.strip()
X_Strip ==
    /\ xpc = "init"
    /\ xtext' = strip_text(xinput[1].text)
    /\ xpc' = "stripped"
    /\ UNCHANGED <<extractRest, xinput, xstart, xi, xdepth, xend, xcand, xret>>

\* the markdown code fence is stripped
X_Fence ==
    /\ xpc = "stripped"
    /\ xtext' = strip_fence(xtext)
    /\ xpc' = "fenced"
    /\ UNCHANGED <<extractRest, xinput, xstart, xi, xdepth, xend, xcand, xret>>

\* the direct parse: its value is returned, or JSONDecodeError is passed
X_Direct ==
    /\ xpc = "fenced"
    /\ IF loads(xtext) # None
       THEN xret' = loads(xtext) /\ xpc' = "done"
       ELSE xpc' = "find" /\ UNCHANGED xret
    /\ UNCHANGED <<extractRest, xinput, xtext, xstart, xi, xdepth, xend, xcand>>

\* start = text.find("{"); None is returned for -1
X_Find ==
    /\ xpc = "find"
    /\ xstart' = find_brace(xtext)
    /\ IF find_brace(xtext) = 0
       THEN xpc' = "done" /\ UNCHANGED <<xi, xend>>
       ELSE xpc' = "scan" /\ xi' = find_brace(xtext) /\ xend' = find_brace(xtext)
    /\ UNCHANGED <<extractRest, xinput, xtext, xdepth, xcand, xret>>

\* one iteration of `for i in range(start, len(text))`
X_Scan ==
    /\ xpc = "scan"
    /\ LET d == IF xtext[xi] = "{" THEN xdepth + 1
                ELSE IF xtext[xi] = "}" THEN xdepth - 1
                ELSE xdepth
           closed == xtext[xi] = "}" /\ d = 0
       IN  /\ xdepth' = d
           /\ xend' = IF closed THEN xi ELSE xend
           /\ xi' = IF closed \/ xi = Len(xtext) THEN xi ELSE xi + 1
           /\ xpc' = IF closed \/ xi = Len(xtext) THEN "scanned" ELSE "scan"
    /\ UNCHANGED <<extractRest, xinput, xtext, xstart, xcand, xret>>

\* candidate is cut out of the text or closed with `depth` braces
X_Candidate ==
    /\ xpc = "scanned"
    /\ xcand' = candidate(xtext, xstart, xdepth, xend)
    /\ xpc' = "candidate"
    /\ UNCHANGED <<extractRest, xinput, xtext, xstart, xi, xdepth, xend, xret>>

\* trailing commas are removed and the candidate is parsed
X_Reparse ==
    /\ xpc = "candidate"
    /\ xcand' = drop_trailing_commas(xcand)
    /\ xret' = loads(drop_trailing_commas(xcand))
    /\ xpc' = "done"
    /\ UNCHANGED <<extractRest, xinput, xtext, xstart, xi, xdepth, xend>>

NextExtract ==
    \/ X_Strip
    \/ X_Fence
    \/ X_Direct
    \/ X_Find
    \/ X_Scan
    \/ X_Candidate
    \/ X_Reparse

SpecExtract == InitExtract /\ [][NextExtract]_vars

----------------------------------------------------------------------------
\* Claims about stream_inference, checked under SpecStream

IsTerminal(e) == e.type \in {"complete", "error"}
LastEvent == events[Len(events)]

\* C3: (stack connector) when the primary stream fails, the connector opens
\* the Chat-Completions stream as it does when the primary stream drains
\* without usage; no error event is yielded before the fallback was tried.
C3_FailedPrimaryFallsBack ==
    (conn = "llama_stack" /\ prim_end = "failed")
    => /\ \A k \in 1..Len(events) :
            events[k].type = "error" => "chat_completions" \in Range(sopened)
       /\ spc = "done" => sopened = <<"responses", "chat_completions">>

\* C4: in every complete event of the stack connector api_used names the
\* dialect that supplied the results: "chat_completions" whenever the
\* fallback stream was run, "responses" only when the primary stream
\* delivered the usage.
C4_ApiUsedNamesSupplier ==
    conn = "llama_stack" =>
        \A k \in 1..Len(events) :
            events[k].type = "complete" =>
                /\ "chat_completions" \in Range(sopened)
                        => events[k].api_used = "chat_completions"
                /\ events[k].api_used = "responses" => usage_src = "responses"

\* C8: a stream_inference run of either connector yields a finite event
\* sequence with exactly one terminal event (complete or error), which is its
\* last event; a failure of the fallback stream ends it with error.
C8_OneTerminalEvent ==
    /\ \A k \in 1..(Len(events) - 1) : ~IsTerminal(events[k])
    /\ spc = "done" => (Len(events) >= 1 /\ IsTerminal(LastEvent))
    /\ (Len(events) >= 1 /\ IsTerminal(LastEvent))
            => spc \in {"error_yielded", "complete_yielded", "done"}
    /\ fb_end = "failed" => (Len(events) >= 1 /\ LastEvent.type = "error")
    /\ Len(events) <= 2 * MaxLines + 1
    /\ spc # "done" => ENABLED NextStream

C8_Witness ==
    /\ conn = "llama_stack" /\ spc = "done" /\ fb_end = "failed"
    /\ Len(events) >= 3
    /\ events[1].type = "text_delta" /\ fb_from >= 1
    /\ events[Len(events) - 1].type = "text_delta"
    /\ LastEvent.type = "error"

----------------------------------------------------------------------------
\* Claims about run_benchmark, checked under SpecBench

Gathered == bpc \in {"scoring", "done"}
Unscored(r) == [r EXCEPT !.quality_score = None, !.quality_reasoning = <<>>]
ZeroUsage == [input_tokens |-> 0, output_tokens |-> 0, total_tokens |-> 0]
InFlight(i) == tcalls[i] - Len(runs[i]) - (IF tpc[i] = "raised" THEN 1 ELSE 0)

\* C6: results has exactly one entry per prompt and results[i] belongs to
\* prompts[i], for every completion order of the tasks and whether they
\* succeed, return an error result or raise.
C6_ResultsAligned ==
    /\ Gathered =>
        /\ Len(results) = Len(prompts)
        /\ \A i \in 1..N :
            /\ results[i].prompt = prompts[i]
            /\ results[i].error = None =>
                    (tpc[i] = "returned" /\ results[i].response_text[1] = AllInputs[i])
            /\ tpc[i] = "raised" <=> results[i].error = Some("SSLError")
    /\ bpc = "done" => response.results = results

C6_Witness ==
    /\ bpc = "done" /\ N = 2 /\ out_of_order
    /\ tpc[2] = "raised" /\ results[2].error = Some("SSLError")
    /\ results[1].error = None /\ results[1].prompt = "p"

\* C7: an exception raised by the task of one prompt becomes a
\* BenchmarkTestResult at that prompt's index with the exception text as
\* error and the prompt's input; every sibling task runs to completion with
\* the result it has without the failure; run_benchmark does not raise.
C7_FailureIsolated ==
    /\ bpc # "raised"
    /\ Gathered =>
        \A i \in 1..N :
            /\ tpc[i] \in {"returned", "raised"}
            /\ tpc[i] = "raised" =>
                /\ results[i].prompt = prompts[i]
                /\ results[i].error = Some("SSLError")
                /\ results[i].response_text = <<>>
                /\ results[i].usage = ZeroUsage
            /\ tpc[i] = "returned" =>
                /\ Len(runs[i]) = (IF num_runs <= 1 THEN 1 ELSE num_runs)
                /\ Unscored(results[i]) \in Reduced(prompts[i], num_runs, runs[i])

C7_Witness ==
    /\ bpc = "done" /\ N = 2 /\ num_runs = 2
    /\ out_of_order /\ tpc[2] = "raised" /\ tcalls[2] = 1
    /\ tpc[1] = "returned" /\ Len(runs[1]) = 2 /\ results[1].error = None
    /\ response.aggregate.total_tokens > 0

\* C10: with num_runs = M >= 2 the task of each prompt issues exactly M
\* inference calls whatever number of them return an error, repeat k+1 is
\* not started before repeat k has returned (at most one call in flight per
\* prompt), while calls of different prompts interleave.
C10_RepeatsSequential ==
    num_runs >= 2 =>
        \A i \in 1..N :
            /\ tcalls[i] <= num_runs
            /\ tcalls[i] <= Len(runs[i]) + 1
            /\ InFlight(i) \in {0, 1}
            /\ InFlight(i) = 1 <=> tpc[i] = "calling"
            /\ tpc[i] = "returned" => (tcalls[i] = num_runs /\ Len(runs[i]) = num_runs)

C10_Witness ==
    /\ num_runs >= 2 /\ N >= 2
    /\ tpc[1] = "returned" /\ tcalls[1] = num_runs
    /\ \A k \in 1..num_runs : runs[1][k].error # None
    /\ tpc[2] = "calling" /\ Len(runs[2]) = 1 /\ InFlight(2) = 1

\* x is a nearest integer to a / n
IsNearest(x, a, n) == 2 * (IF n * x >= a THEN n * x - a ELSE a - n * x) <= n

OkRuns(i) == SelectSeq(runs[i], IsOk)
LastOk(i) == OkRuns(i)[Len(OkRuns(i))]

\* C11: with num_runs >= 2 and at least one successful repeat the reduced
\* result has no error, input/output/total tokens equal to the mean over the
\* successful repeats rounded to the nearest integer, latency_ms equal to
\* their mean latency rounded to one decimal, and the response_text and
\* api_used of the last successful repeat in issue order; failed repeats
\* contribute nothing.
C11_MultiRunReduction ==
    num_runs >= 2 =>
        \A i \in 1..N :
            (tpc[i] = "returned" /\ OkRuns(i) # <<>>) =>
                LET ok == OkRuns(i)
                    r == raw_results[i]
                IN  /\ r.error = None
                    /\ r.prompt = prompts[i]
                    /\ IsNearest(r.usage.input_tokens, SumSeq(InputTokens(ok)), Len(ok))
                    /\ IsNearest(r.usage.output_tokens, SumSeq(OutputTokens(ok)), Len(ok))
                    /\ IsNearest(r.usage.total_tokens, SumSeq(TotalTokens(ok)), Len(ok))
                    /\ IsNearest(r.latency_ms, SumSeq(Latencies(ok)), Len(ok))
                    /\ r.response_text = LastOk(i).response_text
                    /\ r.api_used = LastOk(i).api_used

C11_Witness ==
    /\ num_runs = 2 /\ N = 2
    /\ tpc[1] = "returned" /\ runs[1][1].error = None /\ runs[1][2].error # None
    /\ raw_results[1].response_text = runs[1][1].response_text
    /\ raw_results[1].latency_ms = runs[1][1].latency_ms
    /\ tpc[2] = "returned" /\ runs[2][1].error = None /\ runs[2][2].error = None
    /\ raw_results[2].api_used = runs[2][2].api_used
    /\ raw_results[2].usage.input_tokens = 2

\* C12: with num_runs >= 2, when every repeat returned an error the reduced
\* result is the first repeat's failing result unchanged, not the last one
\* and not an averaged one.
C12_AllFailedReturnsFirst ==
    num_runs >= 2 =>
        \A i \in 1..N :
            (tpc[i] = "returned" /\ OkRuns(i) = <<>>) =>
                /\ raw_results[i] = runs[i][1]
                /\ Gathered => results[i] = runs[i][1]

C12_Witness ==
    /\ num_runs = 2 /\ bpc = "done"
    /\ tpc[1] = "returned" /\ runs[1][1].error # None /\ runs[1][2].error # None
    /\ runs[1][1] # runs[1][2]
    /\ results[1] = runs[1][1]

\* C13: with score_quality the Quality Scorer is invoked exactly once for
\* every result without error and never for a result with an error; a failed
\* result gets quality_score null and quality_reasoning ""; the score
\* produced for the result at index i is stored on results[i], for every
\* completion order of the concurrent scoring calls.
C13_ScoredOncePerSuccess ==
    (score_quality /\ Gathered) =>
        \A i \in 1..N :
            /\ results[i].error # None =>
                    /\ qpc[i] = "noop" /\ qcalls[i] = 0
                    /\ results[i].quality_score = None
                    /\ results[i].quality_reasoning = <<>>
            /\ results[i].error = None =>
                    /\ qpc[i] \in {"created", "calling", "done"}
                    /\ qcalls[i] <= 1
                    /\ (has_judge /\ qpc[i] \in {"calling", "done"}) => qcalls[i] = 1
                    /\ bpc = "done" =>
                        /\ qpc[i] = "done"
                        /\ results[i].quality_score = scores[i].score
                        /\ results[i].quality_reasoning = scores[i].reasoning
                        /\ results[i].quality_score # None =>
                            /\ results[i].quality_score = Some(clamp(JudgeScore(i)))
                            /\ results[i].quality_reasoning = <<"r", Digits[i]>>

C13_Witness ==
    /\ bpc = "done" /\ score_quality /\ has_judge /\ N = 2 /\ out_of_order
    /\ results[1].quality_score = Some(clamp(JudgeScore(1)))
    /\ results[2].quality_score = Some(clamp(JudgeScore(2)))
    /\ results[1].quality_score # results[2].quality_score
    /\ qcalls = <<1, 1>>

\* C14: every failing outcome of a judge call (network error, non-2xx
\* status, bad body, empty text, no JSON, no score, bad score) makes
\* score_response return (null, "") without raising; without a judge server
\* or model it returns that without any network call; run_benchmark still
\* returns every inference result and the aggregates, and the other results
\* keep their own scores.
C14_ScoringFailuresContained ==
    /\ \A i \in 1..MaxPrompts : \A o \in JudgeOutcomes(i) :
            o.kind \in JudgeFailKinds => score_of(o) = [score |-> None, reasoning |-> <<>>]
    /\ score_quality =>
        /\ \A i \in 1..N : qpc[i] # "raised"
        /\ ~has_judge => \A i \in 1..N : qcalls[i] = 0 /\ scores[i].score = None
        /\ bpc \in {"gather", "scoring", "done"}
        /\ bpc = "done" =>
            /\ Len(response.results) = N
            /\ \A i \in 1..N :
                /\ Unscored(response.results[i]) = Convert(i, raw_results[i])
                /\ response.results[i].quality_score = scores[i].score
                /\ response.results[i].quality_reasoning = scores[i].reasoning
            /\ \E resp \in Responses(results) : resp.aggregate = response.aggregate

C14_Witness ==
    /\ bpc = "done" /\ score_quality /\ has_judge /\ N = 2
    /\ qcalls = <<1, 1>>
    /\ results[1].error = None /\ results[1].quality_score = None
    /\ results[2].quality_score = Some(clamp(JudgeScore(2)))
    /\ response.aggregate.total_tokens > 0

OkResults == SelectSeq(results, IsOk)

\* C15: avg_latency_ms is the sum of latency_ms over the error-free results
\* divided by their number, rounded to one decimal, and 0 when there is
\* none; the latency of failed results does not contribute.
C15_AvgLatencyOverSuccessful ==
    bpc = "done" =>
        IF OkResults = <<>>
        THEN response.avg_latency_ms = 0
        ELSE IsNearest(response.avg_latency_ms, SumSeq(Latencies(OkResults)), Len(OkResults))

\* C16: the aggregate input_tokens and output_tokens are the sums over the
\* error-free results; total_tokens is the sum of their total_tokens when
\* that sum is positive and sum(input) + sum(output) otherwise.
C16_AggregateUsage ==
    bpc = "done" =>
        LET ti == SumSeq(InputTokens(OkResults))
            to == SumSeq(OutputTokens(OkResults))
            tt == SumSeq(TotalTokens(OkResults))
        IN  /\ response.aggregate.input_tokens = ti
            /\ response.aggregate.output_tokens = to
            /\ tt > 0 => response.aggregate.total_tokens = tt
            /\ tt = 0 => response.aggregate.total_tokens = ti + to

C16_Witness ==
    /\ bpc = "done" /\ N = 2
    /\ results[1].error # None /\ results[1].latency_ms > 0
    /\ results[2].error = None /\ results[2].usage.total_tokens = 0
    /\ response.aggregate.input_tokens = results[2].usage.input_tokens
    /\ response.aggregate.input_tokens > 0
    /\ response.aggregate.total_tokens
            = response.aggregate.input_tokens + response.aggregate.output_tokens

----------------------------------------------------------------------------
\* Claims about score_response, checked under SpecScore

\* C18: every non-null quality_score score_response returns lies in [1,10]:
\* a judge-reported score above 10 becomes 10, one below 1 becomes 1, and one
\* inside the range is returned unchanged.
C18_ScoreClamped ==
    (jpc = "done" /\ jret.score # None) =>
        /\ jret.score[1] >= 1 /\ jret.score[1] <= 10
        /\ jreply.kind = "scored" =>
            /\ jreply.score > 10 => jret.score[1] = 10
            /\ jreply.score < 1 => jret.score[1] = 1
            /\ (jreply.score >= 1 /\ jreply.score <= 10) => jret.score[1] = jreply.score

C18_Witness ==
    /\ jpc = "done" /\ jposts = 1
    /\ jreply.kind = "scored" /\ jreply.score = -3
    /\ jret.score = Some(1)

----------------------------------------------------------------------------
\* Claims about the latency statistics, checked under SpecStats

\* the ranks floor(k) and ceil(k) of k = (n - 1) * p / 100, inside the list
RankFloor == CHOOSE j \in 0..(Len(sorted_values) - 1) :
                100 * j <= (Len(sorted_values) - 1) * pctl_p
                /\ (Len(sorted_values) - 1) * pctl_p < 100 * (j + 1)
RankCeil == CHOOSE j \in 0..(Len(sorted_values) - 1) :
                100 * (j - 1) < (Len(sorted_values) - 1) * pctl_p
                /\ (Len(sorted_values) - 1) * pctl_p <= 100 * j
Count(q, x) == Cardinality({j \in 1..Len(q) : q[j] = x})

\* C17: for a non-empty ascending list and p in 0..100, _percentile returns
\* the linear interpolation at rank k = (n - 1) * p / 100: values[floor(k)]
\* when k is an integer, else values[f] * (c - k) + values[c] * (k - f); the
\* ranks are inside the list, the result lies between values[f] and
\* values[c]; p50([10,20,30,40]) = 25 and p95([10,20,30,40]) = 38.5; the list
\* it is applied to is the ascending latencies of the error-free results.
C17_PercentileInterpolates ==
    /\ stpc \in {"sorted", "done"} =>
        /\ \A j \in 1..(Len(sorted_values) - 1) : sorted_values[j] <= sorted_values[j + 1]
        /\ Len(sorted_values) = Cardinality({j \in 1..Len(st_results) : st_results[j].error = None})
        /\ \A j \in 1..Len(st_results) :
                st_results[j].error = None =>
                    Count(sorted_values, st_results[j].latency_ms)
                        = Cardinality({h \in 1..Len(st_results) : st_results[h] = st_results[j]})
    /\ (stpc = "done" /\ sorted_values # <<>>) =>
        LET k100 == (Len(sorted_values) - 1) * pctl_p
            f == RankFloor
            c == RankCeil
        IN  /\ \E j \in 0..(Len(sorted_values) - 1) : 100 * j <= k100 /\ k100 < 100 * (j + 1)
            /\ 100 * f = k100 => pctl = 100 * sorted_values[f + 1]
            /\ 100 * f # k100 =>
                    /\ c = f + 1
                    /\ pctl = sorted_values[f + 1] * (100 * c - k100)
                                + sorted_values[c + 1] * (k100 - 100 * f)
            /\ 100 * sorted_values[f + 1] <= pctl /\ pctl <= 100 * sorted_values[c + 1]
            /\ (sorted_values = <<10, 20, 30, 40>> /\ pctl_p = 50) => pctl = 2500
            /\ (sorted_values = <<10, 20, 30, 40>> /\ pctl_p = 95) => pctl = 3850

C17_Witness ==
    /\ stpc = "done" /\ pctl_p = 95 /\ pctl = 3850
    /\ sorted_values = <<10, 20, 30, 40>>
    /\ st_results[1].latency_ms = 40 /\ st_results[4].latency_ms = 20

----------------------------------------------------------------------------
\* Claims about parse_sse_lines, checked under SpecSSE

IsDoneLine(line) == line \in {L_Done, L_DonePadded}
\* the payload of a well-formed data line
PayloadOf(line) ==
    IF line = L_Data1 THEN <<[number |-> 1]>>
    ELSE IF line = L_DataWide2 THEN <<[number |-> 2]>>
    ELSE <<>>
RECURSIVE PayloadsOf(_)
PayloadsOf(q) == IF q = <<>> THEN <<>> ELSE PayloadOf(Head(q)) \o PayloadsOf(Tail(q))
\* index of the first `data: [DONE]` line, Len + 1 without one
FirstDone ==
    IF \E j \in 1..Len(response_lines) : IsDoneLine(response_lines[j])
    THEN CHOOSE j \in 1..Len(response_lines) :
            /\ IsDoneLine(response_lines[j])
            /\ \A h \in 1..(j - 1) : ~IsDoneLine(response_lines[h])
    ELSE Len(response_lines) + 1

\* C19: the events parse_sse_lines emits are exactly the parsed payloads of
\* the well-formed `data: ` lines before the first `data: [DONE]`, in input
\* order; empty lines, comment lines and malformed data lines are skipped
\* without stopping; on the first `data: [DONE]` one sentinel is emitted as
\* the last event and no later line is consumed or emitted.
C19_ParseSSELines ==
    /\ consumed <= Len(response_lines) /\ consumed <= FirstDone
    /\ consumed < FirstDone =>
            yielded = PayloadsOf(SubSeq(response_lines, 1, consumed))
    /\ consumed = FirstDone =>
            yielded = Append(PayloadsOf(SubSeq(response_lines, 1, FirstDone - 1)),
                             [type |-> "__done__"])
    /\ ppc = "returned" =>
            consumed = (IF FirstDone <= Len(response_lines) THEN FirstDone
                        ELSE Len(response_lines))
    /\ ppc = "done_yielded" => consumed = FirstDone

C19_Witness ==
    /\ ppc = "returned"
    /\ response_lines = <<L_BadJson, L_DataWide2, L_DonePadded, L_Data1>>
    /\ consumed = 3
    /\ yielded = <<[number |-> 2], [type |-> "__done__"]>>

----------------------------------------------------------------------------
\* Claims about run_inference, checked under SpecInfer

Returned == ipc = "done"
ChatRequests == Cardinality({k \in 1..Len(reqs) : reqs[k] = "chat_completions"})
RespRequests == Cardinality({k \in 1..Len(reqs) : reqs[k] = "responses"})

\* the usage a Chat-Completions body stands for, field by field
ChatUsageOf(body) ==
    IF body.usage = None \/ DOMAIN body.usage[1] = {}
    THEN [input_tokens |-> 0, output_tokens |-> 0, total_tokens |-> 0]
    ELSE [input_tokens |-> Get(body.usage[1], "prompt_tokens", 0),
          output_tokens |-> Get(body.usage[1], "completion_tokens", 0),
          total_tokens |-> Get(body.usage[1], "total_tokens", 0)]

\* the primary body came back and its usage is missing or has total_tokens = 0
PrimaryZeroUsage ==
    /\ prim # NoOutcome /\ prim.exc = None
    /\ \/ prim.usage = None
       \/ Get(prim.usage[1], "total_tokens", 0) = 0

\* the result is the Chat-Completions call's, with nothing of the primary
AdoptsChat ==
    /\ result.error = None
    /\ result.api_used = "chat_completions"
    /\ result.response_text = chat.text
    /\ result.usage = ChatUsageOf(chat)

\* the body the usage of the returned result was built from
SupplyingBody == IF result.api_used = "responses" THEN prim ELSE chat
\* that body's usage carries the two counts of its dialect and no total_tokens
OmitsTotal(body) ==
    /\ body.usage # None
    /\ DOMAIN body.usage[1] \in {{"input_tokens", "output_tokens"},
                                  {"prompt_tokens", "completion_tokens"}}

\* C20: when the usage object of the server response carries input and
\* output counts but omits total_tokens, the TokenUsage the connector builds
\* has total_tokens = input_tokens + output_tokens, in both dialects and both
\* connectors.
C20_TotalDerived ==
    (Returned /\ result.error = None /\ OmitsTotal(SupplyingBody)) =>
        result.usage.total_tokens
            = result.usage.input_tokens + result.usage.output_tokens

\* C1: (stack connector) whenever the primary Responses call throws, exactly
\* one Chat-Completions call is made and its result is returned instead of an
\* error result built from the primary failure.
C1_ThrowingPrimaryFallsBack ==
    (conn = "llama_stack" /\ ipc \in {"done", "raised"}
        /\ prim # NoOutcome /\ prim.exc # None)
    => /\ ChatRequests = 1
       /\ chat # NoOutcome
       /\ chat.exc = None => AdoptsChat
       /\ result.error # prim.exc

\* C2 as stated: (stack connector) whenever the primary call returns usage
\* that is missing or has total_tokens = 0, the returned result has
\* api_used = "chat_completions" and the text and usage of the
\* Chat-Completions call.
C2_ZeroUsageAlwaysAdoptsChat ==
    (conn = "llama_stack" /\ Returned /\ PrimaryZeroUsage) => AdoptsChat

\* C2 amended: (stack connector) whenever the primary call returns usage that
\* is missing or has total_tokens = 0 and the Chat-Completions call returns a
\* body, the result has api_used = "chat_completions" and exactly the text and
\* usage of the Chat-Completions call (all-zero usage when it reports none);
\* when the Chat-Completions call throws, the result is an error result that
\* carries nothing of the primary response either.
C2_ZeroUsageAdoptsChat ==
    (conn = "llama_stack" /\ Returned /\ PrimaryZeroUsage)
    => /\ chat # NoOutcome
       /\ chat.exc = None => AdoptsChat
       /\ chat.exc # None =>
            /\ result.error = chat.exc
            /\ result.response_text = <<>>
            /\ result.usage = [input_tokens |-> 0, output_tokens |-> 0, total_tokens |-> 0]
            /\ result.api_used = ""

C2_Witness ==
    /\ conn = "llama_stack" /\ Returned
    /\ prim.exc = None /\ prim.usage # None /\ prim.text = <<"a">>
    /\ "input_tokens" \in DOMAIN prim.usage[1] /\ prim.usage[1]["input_tokens"] > 0
    /\ chat # NoOutcome /\ chat.exc = None /\ chat.text = <<>>
    /\ chat.usage # None /\ Get(chat.usage[1], "total_tokens", 0) > 0

\* C5: run_inference of both connectors never raises: for every outcome of
\* the outbound calls it returns an InferenceResult, and whenever an exception
\* occurred the result has error set and latency_ms equal to the rounded time
\* elapsed since the call was entered, fallback included.
C5_NeverRaises ==
    /\ ~crossed /\ ipc # "raised"
    /\ Returned =>
        /\ result # NoResult
        /\ (prim.exc # None \/ chat.exc # None) =>
            /\ result.error # None
            /\ result.error = (IF prim.exc # None THEN prim.exc ELSE chat.exc)
            /\ result.latency_ms = Round1(now - entered)

C5_Witness ==
    /\ conn = "llama_stack" /\ Returned
    /\ prim # NoOutcome /\ prim.exc = None
    /\ chat.exc = Some("JSONDecodeError")
    /\ result.error = Some("JSONDecodeError")
    /\ now - entered = 2 * MaxDur /\ result.latency_ms > 0

\* C9: the fallback is single-shot. The stack connector issues at most two
\* requests, Responses first, then at most one Chat-Completions request that
\* starts only after the Responses request returned with usage missing or
\* total_tokens = 0, and a failing Chat-Completions request is not retried.
\* The OpenAI-compatible connector issues exactly one Chat-Completions request
\* and never a Responses request.
C9_SingleShotFallback ==
    /\ Cardinality(inflight) <= 1
    /\ conn = "llama_stack" =>
        /\ Len(reqs) <= 2
        /\ Len(reqs) >= 1 => reqs[1] = "responses"
        /\ ipc # "init" => Len(reqs) >= 1
        /\ Len(reqs) = 2 =>
            /\ reqs[2] = "chat_completions"
            /\ "responses" \notin inflight
            /\ PrimaryZeroUsage
    /\ conn = "openai" =>
        /\ RespRequests = 0
        /\ ipc = "init" => reqs = <<>>
        /\ ipc # "init" => reqs = <<"chat_completions">>

C9_Witness ==
    /\ conn = "llama_stack" /\ Returned
    /\ reqs = <<"responses", "chat_completions">>
    /\ chat.exc # None

DialectNames == {"responses", "chat_completions"}

\* C21 (as stated): every InferenceResult run_inference returns, successful
\* or failed, has api_used equal to "responses" or "chat_completions".
C21_ApiUsedAlwaysDialect ==
    Returned => result.api_used \in DialectNames

\* C21 (amended): a successful InferenceResult has api_used "responses" or
\* "chat_completions" ("chat_completions" for the OpenAI-compatible
\* connector); a failed one has api_used "".
C21_ApiUsedOfResult ==
    Returned =>
        /\ result.error = None =>
                /\ result.api_used \in DialectNames
                /\ conn = "openai" => result.api_used = "chat_completions"
        /\ result.error # None => result.api_used = ""

C21_Witness ==
    /\ conn = "openai" /\ Returned
    /\ chat.exc = Some("HTTPStatusError")
    /\ result.error = Some("HTTPStatusError") /\ result.api_used = ""

\* C27: every InferenceResult with an error has empty response_text and
\* all-zero usage; when the primary call returned text with zero usage and the
\* Chat-Completions fallback failed, nothing of the primary response appears
\* in the error result.
C27_ErrorResultIsBare ==
    (Returned /\ result.error # None) =>
        /\ result.response_text = <<>>
        /\ result.usage = [input_tokens |-> 0, output_tokens |-> 0, total_tokens |-> 0]

C27_Witness ==
    /\ conn = "llama_stack" /\ Returned
    /\ prim # NoOutcome /\ prim.exc = None /\ prim.text = <<"a">>
    /\ prim.usage # None /\ Get(prim.usage[1], "input_tokens", 0) = 1
    /\ chat.exc # None
    /\ result.error = chat.exc /\ result.response_text = <<>>

\* ---------------------------------------------------------------------------
\* stream_inference: the fallback stream
\* ---------------------------------------------------------------------------

RECURSIVE DeltaText(_, _)
\* the text of the text_delta events events[from+1 .. to], in order
DeltaText(from, to) ==
    IF to <= from THEN <<>>
    ELSE DeltaText(from, to - 1)
         \o (IF events[to].type = "text_delta" THEN events[to].delta ELSE <<>>)

EndsInComplete == events # <<>> /\ LastEvent.type = "complete"
OnFallbackPath == conn = "llama_stack" /\ stage = "fallback"

\* C22: (stack connector) a stream that took the fallback path and ends in
\* complete reports as response_text the text deltas of the fallback stream
\* only, in order, and as usage the last usage object a stream delivered; the
\* primary and the fallback stream are never open at the same time.
C22_FallbackRestartsText ==
    /\ Cardinality(sopen) <= 1
    /\ (OnFallbackPath /\ EndsInComplete) =>
            /\ LastEvent.response_text = DeltaText(fb_from, Len(events) - 1)
            /\ LastEvent.usage = IF usage_seen # None THEN usage_seen[1] ELSE EmptyDict

C22_Witness ==
    /\ OnFallbackPath /\ EndsInComplete
    /\ DeltaText(0, fb_from) # <<>>
    /\ DeltaText(fb_from, Len(events) - 1) # <<>>
    /\ LastEvent.response_text # DeltaText(0, Len(events) - 1)
    /\ usage_seen # None /\ usage_seen[1].total_tokens = 2

\* C25: in every stream that ends in complete, the text of all text_delta
\* events yielded before it equals the response_text of the complete event.
C25_DeltasAreResponseText ==
    EndsInComplete => LastEvent.response_text = DeltaText(0, Len(events) - 1)

\* C26: (stack connector) the fallback stream is opened exactly when the
\* primary stream drained without an exception and without delivering a
\* non-empty usage object; a primary usage of zero tokens is a usage and opens
\* no fallback; the fallback stream is opened at most once.
C26_FallbackIffNoPrimaryUsage ==
    conn = "llama_stack" =>
        /\ stage = "fallback" => prim_end = "drained"
        /\ (stage = "fallback" /\ Len(sopened) = 1) => usage_seen = None
        /\ (stage = "primary" /\ prim_end = "drained" /\ spc \in {"complete_yielded", "done"})
                => usage_seen # None
        /\ Len(sopened) <= 2
        /\ Len(sopened) = 2 => sopened = <<"responses", "chat_completions">>

C26_Witness ==
    /\ conn = "llama_stack" /\ stage = "primary" /\ prim_end = "drained"
    /\ spc = "done" /\ EndsInComplete
    /\ usage_seen = Some([input_tokens |-> 0, output_tokens |-> 0, total_tokens |-> 0])
    /\ sopened = <<"responses">>

\* ---------------------------------------------------------------------------
\* Claims about std_dev_tokens, checked under SpecStdDev
\* ---------------------------------------------------------------------------

RECURSIVE OkTokens(_)
\* total_tokens of the results without error, in order
OkTokens(rs) ==
    IF rs = <<>> THEN <<>>
    ELSE (IF Head(rs).error = None THEN <<Head(rs).usage.total_tokens>> ELSE <<>>)
         \o OkTokens(Tail(rs))

RECURSIVE SumOfSquares(_)
SumOfSquares(q) == IF q = <<>> THEN 0 ELSE q[1] * q[1] + SumOfSquares(Tail(q))

\* k tenths is 10 * sqrt(d / m) rounded to the nearest integer
IsRootTenths(k, d, m) ==
    /\ k >= 0
    /\ k > 0 => (2 * k - 1) * (2 * k - 1) * m <= 400 * d
    /\ 400 * d <= (2 * k + 1) * (2 * k + 1) * m

\* C23: std_dev_tokens is 0 with fewer than two error-free results; with
\* n > 1 of them it is the sample standard deviation (divisor n - 1) of their
\* total_tokens, to one decimal: 0 for [15, 15], 10 for [90, 100, 110];
\* results with an error take no part.
C23_SampleStdDev ==
    sdpc = "done" =>
        LET t == OkTokens(sd_results)
            n == Len(t)
        IN  /\ n < 2 => std_dev_tokens = 0
            /\ n >= 2 => IsRootTenths(std_dev_tokens,
                                      n * SumOfSquares(t) - SumSeq(t) * SumSeq(t),
                                      n * (n - 1))
            /\ t = <<15, 15>> => std_dev_tokens = 0
            /\ t = <<90, 100, 110>> => std_dev_tokens = 100

C23_Witness ==
    /\ sdpc = "done"
    /\ Len(sd_results) = 4 /\ sd_results[2].error # None
    /\ token_counts = <<90, 100, 110>>
    /\ std_dev_tokens = 100

\* ---------------------------------------------------------------------------
\* Claims about discover_models, checked under SpecDiscover
\* ---------------------------------------------------------------------------

\* the try block of an endpoint's request ended in an exception
PrimaryFailed == dprim # None /\ Listing(PrimaryStyle(conn), dprim[1], <<>>).exc # None
SecondaryFailed == dsec # None /\ Listing("openai", dsec[1], <<>>).exc # None
SecondaryRequests == Cardinality({k \in 1..Len(dreqs) : dreqs[k] = SecondaryPath})

\* C24: discover_models returns a list whatever happens; the stack connector
\* asks the secondary endpoint only after the primary request failed, at most
\* once, and returns the empty list when both fail; the OpenAI-compatible
\* connector issues one request and returns the empty list when it fails.
C24_DiscoverBestEffort ==
    /\ dpc = "done" => dret # None
    /\ SecondaryRequests <= 1
    /\ SecondaryRequests = 1 => (conn = "llama_stack" /\ PrimaryFailed)
    /\ (dpc = "done" /\ ~PrimaryFailed) => dreqs = <<PrimaryPath>>
    /\ (dpc = "done" /\ conn = "openai") => dreqs = <<PrimaryPath>>
    /\ (dpc = "done" /\ conn = "llama_stack" /\ PrimaryFailed /\ SecondaryFailed)
            => dret = Some(<<>>)
    /\ (dpc = "done" /\ conn = "openai" /\ PrimaryFailed) => dret = Some(<<>>)

\* ---------------------------------------------------------------------------
\* run_benchmark: the phases
\* ---------------------------------------------------------------------------

\* C28: no scoring task exists and no judge call is issued before every
\* inference task has finished; the response with its aggregates is built only
\* when no scoring task is pending; without score_quality no scoring task is
\* ever created and every quality_score stays null.
C28_PhaseBarriers ==
    /\ (\E i \in 1..N : qpc[i] # "none" \/ qcalls[i] > 0)
            => \A j \in 1..N : tpc[j] \in {"returned", "raised"}
    /\ response # NoResult => \A i \in 1..N : qpc[i] \notin {"created", "calling"}
    /\ ~score_quality =>
            /\ \A i \in 1..N : qpc[i] = "none" /\ qcalls[i] = 0
            /\ \A i \in 1..Len(results) : results[i].quality_score = None
            /\ response # NoResult =>
                    \A i \in 1..N : response.results[i].quality_score = None

C28_Witness ==
    /\ bpc = "done" /\ score_quality /\ has_judge /\ N = 2 /\ num_runs = 2
    /\ tcalls = <<2, 2>> /\ qcalls = <<1, 1>>
    /\ response # NoResult
    /\ response.results[1].quality_score # None
    /\ response.results[2].quality_score = None

C28_WitnessUnscored ==
    /\ bpc = "done" /\ ~score_quality /\ N = 2
    /\ response # NoResult
    /\ response.results[1].error = None /\ response.results[2].error = None

\* ---------------------------------------------------------------------------
\* Claims about the routers, checked under SpecRoute
\* ---------------------------------------------------------------------------

\* C29: no connector operation is invoked with a server URL that
\* validate_server_url rejects; the discover, server-health and benchmark-run
\* endpoints answer such a URL with a 4xx status and without a connector call.
C29_RejectedUrlNeverReachesConnector ==
    /\ \A k \in 1..Len(rcalls) : validate_server_url(rcalls[k].url) = None
    /\ (rpc = "done" /\ validate_server_url(rurl) # None) =>
            /\ rstatus \in 400..499
            /\ rcalls = <<>>

\* ---------------------------------------------------------------------------
\* Claims about _extract_json, checked under SpecExtract
\* ---------------------------------------------------------------------------

HasBrace(str) == \E i \in 1..Len(str) : str[i] = "{"

\* C30: the text of a JSON object alone, in a code fence or between
\* brace-free prose gives that object, also when its strings hold braces;
\* a text without `{` gives None; an object cut off before its last brace is
\* closed and gives the object.
C30_ExtractRecoversObject ==
    xpc = "done" =>
        /\ xinput[1].wrap \in {"alone", "fence_json", "fence", "prose"}
                => xret = Some(xinput[1].val)
        /\ ~HasBrace(xinput[1].text) => xret = None
        /\ xinput[1].wrap = "cut" => xret = Some(xinput[1].val)

====
